---- MODULE Spec2Model ----
(***************************************************************************)
(* jQuery.mvc notifier: the observer map, the shared notification queue    *)
(* (a jQuery "fx" queue on an empty object) and the synchronous-delivery   *)
(* counter of src/jquery.mvc.js, lines 614-807; the module system of lines *)
(* 32-170 ($.mvc.module, options, _super) and the model, view and          *)
(* controller caches of lines 178-573.                                     *)
(*                                                                         *)
(* JavaScript is single threaded.  A state of the model is a point where   *)
(* user code is running: either top-level code (no handler on the stack)   *)
(* or the body of an observer's handler.  User code may call register,     *)
(* remove and notify; a handler ends by returning or by raising.           *)
(***************************************************************************)
EXTENDS Integers, Sequences, FiniteSets, Bags, TLC

(* ---------------------------- bounds ---------------------------------- *)
MaxCalls    == 5     \* register, remove and notify calls in one behaviour
MaxMaxSync  == 2     \* largest finite value of options.maxSync explored
MaxDefs     == 3     \* $.mvc.module calls in one behaviour
MaxInsts    == 2     \* instances constructed in one behaviour
MaxStack    == 8     \* nested calls before the engine gives up
MaxList     == 3     \* observers in a list handed to remove
MaxName     == 3     \* characters in a module name

Names     == {"n1"}
Contexts  == {"c1", "c2"}
Observers == { [fn |-> "f1", context |-> "c1"],
               [fn |-> "f2", context |-> "c2"],
               [fn |-> "f3", context |-> "c2"] }

\* An "Infinity-equivalent" maxSync: larger than any number of deliveries.
Unbounded == (MaxCalls * MaxCalls) + 1

VARIABLES
  observerMap,        \* name -> list of observers; absent key = not in DOMAIN
  queue,              \* the functions in notificationQueue, head first
  inprogress,         \* the "inprogress" sentinel at the head of the fx queue
  notificationSync,   \* the synchronous-delivery counter
  maxSync,            \* $.mvc.notifier.options.maxSync
  timers,             \* pending setTimeout( next, o.delay ) callbacks
  cur,                \* <<task>> whose handler is executing now, or <<>>
  stack,              \* notify calls suspended in their $.each loop
  \* ---- history (not read by the program) ----
  log,                \* tasks in the order their handlers were invoked
  notifs,             \* one record per notify call, in call order
  regOrder,           \* name -> current registrations in registration order
  absent,             \* name -> contexts removed and not registered since
  took,               \* name -> some remove call took an observer out
  nreg, nrem,         \* register / remove calls made so far
  yields,             \* number of yields (setTimeout) scheduled so far
  burst,              \* handler invocations since the last yield
  completed,          \* tasks that have called next()
  raised              \* "no" | "timer" | "notify": where an error surfaced

VARIABLES
  heap,               \* the objects reachable from options members, by id
  defs,               \* the module prototypes, $.mvc.Module first
  fsuper,             \* function object -> its __super property
  insts,              \* the module instances constructed with arguments
  ret,                \* the method call made by the last step of user code
  muts,               \* history: writes made by user code to options objects
  want                \* history: the options expected at derivation / construction

VARIABLES
  mvc,                \* $.mvc: namespace -> name -> the constructor stored there
  call                \* a call of $.mvc.module: its arguments and what it made

\* the variables of the module system
mvars == << heap, defs, fsuper, insts, ret, muts, want, mvc, call >>

VARIABLES
  proxyMap,           \* model: name -> the registered proxy (index in insts)
  mediatorMap,        \* view: name -> the registered mediator (index in insts)
  commandMap,         \* controller: notification name -> the stored value
  proxyGuid,          \* counter behind the generated proxy names
  mediatorGuid,       \* counter behind the generated mediator names
  closures,           \* the factory functions made by controller.register
  \* ---- history (not read by the program) ----
  hooks,              \* lifecycle hooks called, in call order
  execs,              \* execute calls made by the factories, in call order
  cret,               \* the call on a cache made by the last step
  dups                \* caches whose register has raised the duplicate error

\* the variables of the three caches
cvars == << proxyMap, mediatorMap, commandMap, proxyGuid, mediatorGuid,
            closures, hooks, execs, cret, dups >>

vars == << observerMap, queue, inprogress, notificationSync, maxSync, timers,
           cur, stack, log, notifs, regOrder, absent, took, nreg, nrem,
           yields, burst, completed, raised,
           heap, defs, fsuper, insts, ret, muts, want, mvc, call,
           proxyMap, mediatorMap, commandMap, proxyGuid, mediatorGuid,
           closures, hooks, execs, cret, dups >>

(* ------------------------- pure helpers -------------------------------- *)
Last(s)  == s[Len(s)]
Front(s) == SubSeq(s, 1, Len(s) - 1)

SeqToBag(s) ==
  LET R == { s[i] : i \in 1..Len(s) }
  IN  [ x \in R |-> Cardinality({ i \in 1..Len(s) : s[i] = x }) ]

\* register that replaces the list instead of pushing onto it
registerOverwrite(map, name, observer) ==
  [m \in DOMAIN map \cup {name} |->
     IF m = name THEN <<observer>> ELSE map[m]]

\* register that puts the new observer in front
registerUnshift(map, name, observer) ==
  IF name \in DOMAIN map
    THEN [map EXCEPT ![name] = <<observer>> \o @]
    ELSE [m \in DOMAIN map \cup {name} |->
            IF m = name THEN <<observer>> ELSE map[m]]

\* register that ignores an observer the list holds already
registerOnce(map, name, observer) ==
  IF name \in DOMAIN map
    THEN IF \E x \in 1..Len(map[name]) : map[name][x] = observer
           THEN map
           ELSE [map EXCEPT ![name] = Append(@, observer)]
    ELSE [m \in DOMAIN map \cup {name} |->
            IF m = name THEN <<observer>> ELSE map[m]]

\* $.mvc.notifier.register
register(map, name, observer) ==
  IF name \in DOMAIN map
    THEN [map EXCEPT ![name] = Append(@, observer)]
    ELSE [m \in DOMAIN map \cup {name} |->
            IF m = name THEN <<observer>> ELSE map[m]]

\* the loop without "i = i - 1": the swapped-in observer is not re-examined
RECURSIVE removeLoopNoRecheck(_, _, _, _)
removeLoopNoRecheck(observers, i, n, context) ==
  IF i < n
    THEN IF observers[i + 1].context = context
           THEN removeLoopNoRecheck([observers EXCEPT ![i + 1] = observers[n]],
                                    i + 1, n - 1, context)
           ELSE removeLoopNoRecheck(observers, i + 1, n, context)
    ELSE SubSeq(observers, 1, n)

\* the loop that stops at the first observer it has taken out
RECURSIVE removeLoopFirst(_, _, _, _)
removeLoopFirst(observers, i, n, context) ==
  IF i < n
    THEN IF observers[i + 1].context = context
           THEN SubSeq([observers EXCEPT ![i + 1] = observers[n]], 1, n - 1)
           ELSE removeLoopFirst(observers, i + 1, n, context)
    ELSE SubSeq(observers, 1, n)

\* The for loop of $.mvc.notifier.remove; i is the 0-based index of the code.
RECURSIVE removeLoop(_, _, _, _)
removeLoop(observers, i, n, context) ==
  IF i < n
    THEN IF observers[i + 1].context = context
           THEN removeLoop([observers EXCEPT ![i + 1] = observers[n]],
                           i, n - 1, context)
           ELSE removeLoop(observers, i + 1, n, context)
    ELSE SubSeq(observers, 1, n)

\* remove that truncates the list but never deletes the key
removeKeepKey(map, name, context) ==
  IF name \in DOMAIN map
    THEN [map EXCEPT ![name] = removeLoop(@, 0, Len(@), context)]
    ELSE map

\* $.mvc.notifier.remove
remove(map, name, context) ==
  IF name \in DOMAIN map
    THEN LET kept == removeLoop(map[name], 0, Len(map[name]), context)
         IN  IF Len(kept) = 0
               THEN [m \in DOMAIN map \ {name} |-> map[m]]
               ELSE [map EXCEPT ![name] = kept]
    ELSE map

\* observers.slice() in notify: the list at the moment of the call
slice(map, name) == IF name \in DOMAIN map THEN map[name] ELSE <<>>

\* The closures handed to notificationQueue.queue by one notify call
Tasks(id, observers) ==
  [ i \in 1..Len(observers) |-> [id |-> id, i |-> i, observer |-> observers[i]] ]

\* the threshold test two deliveries early
exceedsEarly(sync, max) == sync + 2 > max

\* the threshold test one delivery late
exceedsLate(sync, max) == sync > max + 1

\* notificationSync > o.maxSync
exceeds(sync, max) == sync > max

\* dequeue that takes the newest function instead of the oldest
dequeueLast(q) ==
  IF q.queue # <<>>
    THEN [queue |-> SubSeq(q.queue, 1, Len(q.queue) - 1), inprogress |-> TRUE,
          run |-> <<q.queue[Len(q.queue)]>>]
    ELSE [queue |-> <<>>, inprogress |-> FALSE, run |-> <<>>]

\* dequeue that keeps the sentinel when it finds the queue empty
dequeueKeepSentinel(q) ==
  IF q.queue # <<>>
    THEN [queue |-> Tail(q.queue), inprogress |-> TRUE, run |-> <<Head(q.queue)>>]
    ELSE [queue |-> <<>>, inprogress |-> TRUE, run |-> <<>>]

\* jQuery.dequeue on the fx queue: drop the sentinel, run the next function
\* behind a fresh sentinel, or leave the queue empty without a sentinel.
dequeue(q) ==
  IF q.queue # <<>>
    THEN [queue |-> Tail(q.queue), inprogress |-> TRUE, run |-> <<Head(q.queue)>>]
    ELSE [queue |-> <<>>, inprogress |-> FALSE, run |-> <<>>]

\* queue( fn ) that starts the pushed function whatever the sentinel says
enqueueAlwaysStart(q, task) ==
  LET pushed == [queue |-> Append(q.queue, task), inprogress |-> q.inprogress]
  IN  dequeue(pushed)

\* notificationQueue.queue( fn ): push, and start the queue unless the
\* sentinel shows it is already running.
enqueue(q, task) ==
  LET pushed == [queue |-> Append(q.queue, task), inprogress |-> q.inprogress]
  IN  IF ~q.inprogress
        THEN dequeue(pushed)
        ELSE [queue |-> pushed.queue, inprogress |-> pushed.inprogress, run |-> <<>>]

\* $.each over the snapshot: queue one task per observer; the loop is
\* suspended while a task started by queue() runs its handler.
RECURSIVE each(_, _)
each(q, tasks) ==
  IF tasks = <<>>
    THEN [queue |-> q.queue, inprogress |-> q.inprogress, run |-> <<>>, loop |-> <<>>]
    ELSE LET r == enqueue(q, Head(tasks))
         IN  IF r.run # <<>>
               THEN [queue |-> r.queue, inprogress |-> r.inprogress,
                     run |-> r.run, loop |-> Tail(tasks)]
               ELSE each([queue |-> r.queue, inprogress |-> r.inprogress],
                         Tail(tasks))

\* Control returns from a finished task to the innermost suspended notify
\* call, which resumes its loop; when the loop is done notify returns to
\* its caller (a handler, or top-level code when caller = <<>>).
unwind(q, st) ==
  IF st = <<>>
    THEN [queue |-> q.queue, inprogress |-> q.inprogress,
          cur |-> <<>>, started |-> <<>>, stack |-> <<>>]
    ELSE LET r == each(q, Last(st).loop)
         IN  IF r.run # <<>>
               THEN [queue |-> r.queue, inprogress |-> r.inprogress,
                     cur |-> r.run, started |-> r.run,
                     stack |-> [st EXCEPT ![Len(st)].loop = r.loop]]
               ELSE [queue |-> r.queue, inprogress |-> r.inprogress,
                     cur |-> Last(st).caller, started |-> <<>>,
                     stack |-> Front(st)]

\* next(): dequeue; a started task runs its handler, otherwise unwind.
next(q, st) ==
  LET d == dequeue(q)
  IN  IF d.run # <<>>
        THEN [queue |-> d.queue, inprogress |-> d.inprogress,
              cur |-> d.run, started |-> d.run, stack |-> st]
        ELSE unwind([queue |-> d.queue, inprogress |-> d.inprogress], st)

(* ----------------------------- state ----------------------------------- *)
Q == [queue |-> queue, inprogress |-> inprogress]

\* history helpers: the tasks of suspended $.each loops
RECURSIVE LoopTasks(_)
LoopTasks(st) == IF st = <<>> THEN <<>> ELSE Head(st).loop \o LoopTasks(Tail(st))

LoopLen(st) == Len(LoopTasks(st))

OpenIds(st) == { LoopTasks(st)[j].id : j \in 1..LoopLen(st) }

\* a log entry: the task, and whether its observer was still in the list
\* of its notification name when the handler was invoked
Stamp(started, name) ==
  [ j \in 1..Len(started) |->
      [ id |-> started[j].id, i |-> started[j].i,
        observer |-> started[j].observer,
        live |-> \E x \in 1..Len(slice(observerMap, name)) :
                   slice(observerMap, name)[x] = started[j].observer ] ]

NameOf(started) == IF started = <<>> THEN "" ELSE notifs[started[1].id].name

\* user calls made so far
Calls == nreg + nrem + Len(notifs)

Idle      == cur = <<>> /\ stack = <<>>      \* top-level code may run
InHandler == cur # <<>>                      \* a handler body is running
UserCode  == Idle \/ InHandler

(* ------------------- the module system: values ------------------------- *)
\* Keys of options objects, in enumeration order, and the paths to the
\* members of an options tree.
Keys   == << "count", "sub", "ext" >>
KeySet == { Keys[i] : i \in 1..Len(Keys) }
Paths  == { <<k>> : k \in KeySet } \cup { <<k, l>> : k, l \in KeySet }

\* A member of an object literal: undefined, a primitive, a nested plain
\* object ("o"), or a reference to an object that is not a plain object
\* ("x": a function, a DOM element, a Date, an instance of a class).
Undef    == [t |-> "u", v |-> 0]
Prim(n)  == [t |-> "p", v |-> n]
Obj      == [t |-> "o", v |-> 0]
Ext(id)  == [t |-> "x", v |-> id]
\* A member of an object on the heap: undefined, a primitive or a reference.
Ref(id)  == [t |-> "r", v |-> id]

\* the object literal with the given members: a set of <<path, member>>
Lit(members) ==
  [ p \in Paths |->
      IF \E m \in members : m[1] = p
        THEN (CHOOSE m \in members : m[1] = p)[2]
        ELSE Undef ]

EmptyLit    == Lit({})
EmptyObject == [plain |-> TRUE, f |-> [k \in KeySet |-> Undef]]

\* heap ids of the two objects that exist before any user code runs
ModuleOptions == 1     \* $.mvc.Module.prototype.options, the literal { }
External      == ModuleOptions + 1   \* an application object, not plain

\* the member at a path of the tree rooted at object id, as a literal
\* member; what lies inside an object that is not plain is not part of it
RECURSIVE At(_, _, _)
At(h, id, p) ==
  LET m == h[id].f[Head(p)]
  IN  IF Len(p) = 1
        THEN IF m.t = "r"
               THEN IF h[m.v].plain THEN Obj ELSE Ext(m.v)
               ELSE m
        ELSE IF m.t = "r" /\ h[m.v].plain THEN At(h, m.v, Tail(p)) ELSE Undef

\* the tree rooted at object id, read as an object literal
Tree(h, id) == [ p \in Paths |-> At(h, id, p) ]

\* The for-in loop of jQuery.extend( true, target, src ) over the members
\* of src below the path pre: a plain object is merged into the plain
\* object the target already holds under that key, or into a fresh { };
\* anything else that is defined is assigned as it is.
RECURSIVE extendKeys(_, _, _, _, _)
extendKeys(h, target, src, pre, ks) ==
  IF ks = <<>>
    THEN h
    ELSE LET k    == Head(ks)
             path == Append(pre, k)
             copy == IF path \in Paths THEN src[path] ELSE Undef
             old  == h[target].f[k]
         IN  IF copy.t = "o"
               THEN LET reuse == old.t = "r" /\ h[old.v].plain
                        clone == IF reuse THEN old.v ELSE Len(h) + 1
                        h1    == IF reuse THEN h ELSE Append(h, EmptyObject)
                        h2    == extendKeys(h1, clone, src, path, Keys)
                    IN  extendKeys([h2 EXCEPT ![target].f[k] = Ref(clone)],
                                   target, src, pre, Tail(ks))
               ELSE IF copy.t = "u"
                 THEN extendKeys(h, target, src, pre, Tail(ks))
                 ELSE extendKeys(
                        [h EXCEPT ![target].f[k] =
                           IF copy.t = "x" THEN Ref(copy.v) ELSE copy],
                        target, src, pre, Tail(ks))

\* jQuery.extend( true, target, src )
extend(h, target, src) == extendKeys(h, target, src, <<>>, Keys)

\* the tree rooted at object id including what lies inside objects that are
\* not plain: everything user code can read through the root
RECURSIVE AtDeep(_, _, _)
AtDeep(h, id, p) ==
  LET m == h[id].f[Head(p)]
  IN  IF Len(p) = 1
        THEN IF m.t = "r"
               THEN IF h[m.v].plain THEN Obj ELSE Ext(m.v)
               ELSE m
        ELSE IF m.t = "r" THEN AtDeep(h, m.v, Tail(p)) ELSE Undef

Content(h, id) == [ p \in Paths |-> AtDeep(h, id, p) ]

\* the objects reachable from object id (itself included)
RECURSIVE Reach(_, _)
Reach(h, id) ==
  {id} \cup UNION { Reach(h, h[id].f[k].v) :
                      k \in { x \in KeySet : h[id].f[x].t = "r" } }

PlainReach(h, id) == { o \in Reach(h, id) : h[o].plain }

(* ----------------- the module system: $.mvc.module --------------------- *)
\* Function objects written by the application, and what their bodies do:
\* "leaf" returns; "super" returns this._super( arg ); "gsuper" calls
\* this._super( arg ) and returns this.f( arg ).
Null == "null"
Fns  == { "fA", "gA", "hA", "fB", "fC", "gC" }
Kind == [ fn \in Fns |->
            CASE fn \in {"fA", "gA"}       -> "leaf"
              [] fn \in {"hA", "fB", "fC"} -> "super"
              [] OTHER                     -> "gsuper" ]

\* method names of the prototypes, in enumeration order
MethodNames == << "f", "g", "h" >>
MethodSet   == { MethodNames[i] : i \in 1..Len(MethodNames) }

NoMethods == [ m \in MethodSet |-> Null ]
Methods(pairs) ==
  [ m \in MethodSet |->
      IF \E x \in pairs : x[1] = m
        THEN (CHOOSE x \in pairs : x[1] = m)[2]
        ELSE Null ]

\* $.mvc.Module.prototype: no base, options: { }
ModuleDef == [base |-> 0, own |-> NoMethods, options |-> ModuleOptions]

\* prototype[ name ]: the property found along the prototype chain
RECURSIVE method(_, _, _)
method(ds, d, m) ==
  IF d = 0
    THEN Null
    ELSE IF ds[d].own[m] # Null THEN ds[d].own[m] ELSE method(ds, ds[d].base, m)

\* the $.each loop that records fn.__super
RECURSIVE linkSuper(_, _, _, _, _)
linkSuper(fs, ds, d, base, ms) ==
  IF ms = <<>>
    THEN fs
    ELSE LET fn      == method(ds, d, Head(ms))
             fnSuper == method(ds, base, Head(ms))
         IN  linkSuper(IF fn # fnSuper /\ fn # Null /\ fnSuper # Null
                         THEN [fs EXCEPT ![fn] = fnSuper]
                         ELSE fs,
                       ds, d, base, Tail(ms))

\* $.mvc.module without the copy of the base options: proto.options is
\* merged into the options object of the base prototype
moduleNoCopy(h, ds, fs, base, proto) ==
  LET own == ds[base].options
      h2  == extend(h, own, proto.options)
      ds1 == Append(ds, [base |-> base, own |-> proto.methods, options |-> own])
  IN  [heap |-> h2, defs |-> ds1,
       fsuper |-> linkSuper(fs, ds1, Len(ds1), base, MethodNames)]

\* $.mvc.module( name, base, proto )
module(h, ds, fs, base, proto) ==
  LET own == Len(h) + 1
      h1  == extend(Append(h, EmptyObject), own, Tree(h, ds[base].options))
      h2  == extend(h1, own, proto.options)
      ds1 == Append(ds, [base |-> base, own |-> proto.methods, options |-> own])
  IN  [heap |-> h2, defs |-> ds1,
       fsuper |-> linkSuper(fs, ds1, Len(ds1), base, MethodNames)]

\* constructor arguments: a string, an options hash, or undefined
Str(s)    == [kind |-> "string", s |-> s, lit |-> EmptyLit]
Hash(lit) == [kind |-> "hash", s |-> "", lit |-> lit]
Undefined == [kind |-> "undefined", s |-> "", lit |-> EmptyLit]

Arg(args, n) == IF Len(args) >= n THEN args[n] ELSE Undefined

\* what the name member of an instance holds: a string, or something else
NameOfArg(a) == [kind |-> a.kind, s |-> a.s]

\* _createModule that keeps the options object of the prototype
_createModuleShared(h, ds, d, args) ==
  [heap |-> h,
   inst |-> [def |-> d, name |-> NameOfArg(Arg(args, 1)),
            options |-> ds[d].options]]

\* $.mvc.Module.prototype._createModule( name, options )
_createModule(h, ds, d, args) ==
  LET fresh == Len(h) + 1
      h1    == extend(Append(h, EmptyObject), fresh, Tree(h, ds[d].options))
      h2    == extend(h1, fresh, Arg(args, 2).lit)
  IN  [heap |-> h2,
       inst |-> [def |-> d, name |-> NameOfArg(Arg(args, 1)),
            options |-> fresh]]

\* outcomes of a call
Returned(fn, this, arg) ==
  [kind |-> "return", by |-> fn, this |-> this, arg |-> arg]
NoSuper  == [kind |-> "nosuper", by |-> Null, this |-> 0, arg |-> 0]
NotFn    == [kind |-> "notfn", by |-> Null, this |-> 0, arg |-> 0]
Overflow == [kind |-> "overflow", by |-> Null, this |-> 0, arg |-> 0]
NoCall   == [kind |-> "none", by |-> Null, this |-> 0, arg |-> 0]

\* the value of ret when the last step of user code was not a method call
NoRet == [inst |-> 0, m |-> "", arg |-> 0, trace |-> <<>>, result |-> NoCall]

RECURSIVE invoke(_, _, _, _, _, _, _)

\* _super that returns undefined when the caller has no __super
_superSilent(ds, fs, xs, caller, this, arg, fuel) ==
  IF fs[caller] # Null
    THEN invoke(ds, fs, xs, fs[caller], this, arg, fuel - 1)
    ELSE [trace |-> <<>>, result |-> Returned(Null, this, arg)]

\* $.mvc.Module.prototype._super, called by the function caller
_super(ds, fs, xs, caller, this, arg, fuel) ==
  IF fs[caller] # Null
    THEN invoke(ds, fs, xs, fs[caller], this, arg, fuel - 1)
    ELSE [trace |-> <<>>, result |-> NoSuper]

\* fn.apply( this, [ arg ] ) for a function of Fns; the trace lists the
\* functions entered, with receiver and argument
invoke(ds, fs, xs, fn, this, arg, fuel) ==
  LET me == << [fn |-> fn, this |-> this, arg |-> arg] >>
      s  == _super(ds, fs, xs, fn, this, arg, fuel)
      f  == method(ds, xs[this].def, "f")
      c  == IF f # Null
              THEN invoke(ds, fs, xs, f, this, arg, fuel - 1)
              ELSE [trace |-> <<>>, result |-> NotFn]
  IN  IF fuel = 0
        THEN [trace |-> <<>>, result |-> Overflow]
        ELSE CASE Kind[fn] = "leaf" ->
                    [trace |-> me, result |-> Returned(fn, this, arg)]
               [] Kind[fn] = "super" ->
                    [trace |-> me \o s.trace, result |-> s.result]
               [] OTHER ->
                    IF s.result.kind # "return"
                      THEN [trace |-> me \o s.trace, result |-> s.result]
                      ELSE [trace |-> me \o s.trace \o c.trace,
                            result |-> c.result]

(* --------------- $.mvc.module: the name and the prototype -------------- *)
\* A module name is a string of characters; the dot separates a namespace.
Alphabet == { "a", "b", "." }

\* the strings of up to len characters
RECURSIVE Strings(_)
Strings(len) ==
  IF len = 0
    THEN { << >> }
    ELSE Strings(len - 1) \cup
         { Append(s, c) : s \in { x \in Strings(len - 1) : Len(x) = len - 1 },
                          c \in Alphabet }

\* the position of the first dot at or after i, 0 when there is none
RECURSIVE indexOf(_, _)
indexOf(str, i) ==
  IF i > Len(str) THEN 0
  ELSE IF str[i] = "." THEN i
  ELSE indexOf(str, i + 1)

\* name.split( "." )
RECURSIVE split(_)
split(str) ==
  LET i == indexOf(str, 1)
  IN  IF i = 0
        THEN << str >>
        ELSE << SubSeq(str, 1, i - 1) >> \o split(SubSeq(str, i + 1, Len(str)))

\* fullname.join( "-" )
RECURSIVE join(_)
join(parts) ==
  IF Len(parts) = 1
    THEN parts[1]
    ELSE parts[1] \o << "-" >> \o join(Tail(parts))

\* name = fullname[ 1 ] || fullname[ 0 ];
\* namespace = fullname[ 0 ] === name ? "" : fullname[ 0 ]
resolve(str) ==
  LET fullname  == split(str)
      name      == IF Len(fullname) >= 2 /\ fullname[2] # << >>
                     THEN fullname[2]
                     ELSE fullname[1]
      namespace == IF fullname[1] = name THEN << >> ELSE fullname[1]
  IN  [name |-> name, namespace |-> namespace, fullname |-> join(fullname)]

\* The values of the members of a prototype or of a definition table:
\* undefined; a primitive, a function or an object that is no plain object;
\* a plain object with members x and y; an array.
SubKeys == { "x", "y" }
Cells   == { "1", "2" }
NoKeys  == [ k \in SubKeys |-> "" ]
Missing == [kind |-> "undefined", a |-> "", m |-> NoKeys, s |-> << >>]
Atom(a)  == [kind |-> "atom", a |-> a, m |-> NoKeys, s |-> << >>]
Plain(m) == [kind |-> "plain", a |-> "", m |-> m, s |-> << >>]
Array(s) == [kind |-> "array", a |-> "", m |-> NoKeys, s |-> s]

\* a member of a plain object is a cell, or "" when it is undefined
Values ==
  { Missing } \cup { Atom(a) : a \in Cells }
    \cup { Plain(m) : m \in [SubKeys -> Cells \cup { "" }] }
    \cup { Array(s) : s \in { << >> } \cup { << a >> : a \in Cells }
                              \cup { << a, b >> : a, b \in Cells } }

\* $.extend( true, a, b ) of two plain objects
mergePlain(a, b) == [ k \in SubKeys |-> IF b[k] # "" THEN b[k] ELSE a[k] ]

\* $.extend( true, a, b ) of two arrays
mergeArray(a, b) ==
  [ i \in 1..(IF Len(a) > Len(b) THEN Len(a) ELSE Len(b)) |->
      IF i <= Len(b) THEN b[i] ELSE a[i] ]

\* an extend that assigns every defined value as it is
assignShallow(target, copy) ==
  IF copy.kind = "undefined" THEN target ELSE copy

\* One member in $.extend( true, target, .., source ): target is what
\* target[ name ] reads, copy is source[ name ]. An undefined value is
\* skipped, a plain object or an array is merged into what the target holds
\* when that is of the same sort and into an empty one otherwise, every
\* other value is assigned.
assign(target, copy) ==
  CASE copy.kind = "undefined" -> target
    [] copy.kind = "plain" ->
         Plain(mergePlain(IF target.kind = "plain" THEN target.m ELSE NoKeys,
                          copy.m))
    [] copy.kind = "array" ->
         Array(mergeArray(IF target.kind = "array" THEN target.s ELSE << >>,
                          copy.s))
    [] OTHER -> copy

\* the members of a prototype looked at
ProtoKeys == { "name", "base", "options", "notificationInterests" }

\* { name: name, namespace: namespace, base: base.prototype, constructor: .. }
\* $.mvc.Module.prototype is an object literal, the prototype of every other
\* base is not a plain object
structural(baseIsModule) ==
  [ k \in ProtoKeys |->
      CASE k = "name" -> Atom("name")
        [] k = "base" -> IF baseIsModule
                           THEN Plain([x |-> "1", y |-> ""])
                           ELSE Atom("base.prototype")
        [] OTHER      -> Missing ]

\* $.extend( true, baseObj, { name: .., base: .., .. }, proto )
compose(base, struct, proto) ==
  [ k \in ProtoKeys |-> assign(assign(base[k], struct[k]), proto[k]) ]

\* clone = src: the merge is made in the object the target holds, which is
\* of the sort of the value copied
shares(target, copy) ==
  copy.kind \in { "plain", "array" } /\ target.kind = copy.kind

\* What base.prototype holds after the extend. baseObj is a new instance of
\* base: options is its own member (a deep copy), every other member it
\* reads is the value base.prototype holds, until a value is assigned to
\* it. A merge into an object read through baseObj is a merge into the
\* object of base.prototype.
composeBase(base, struct, proto) ==
  [ k \in ProtoKeys |->
      LET first  == assign(base[k], struct[k])
          inBase == /\ k # "options"
                    /\ \/ struct[k].kind = "undefined"
                       \/ shares(base[k], struct[k])
      IN  IF inBase
            THEN IF shares(first, proto[k]) THEN assign(first, proto[k])
                                            ELSE first
            ELSE base[k] ]

\* a table that defines nothing
NoTable == [ k \in ProtoKeys |-> Missing ]

\* a table that defines one member
Only(key, value) == [ k \in ProtoKeys |-> IF k = key THEN value ELSE Missing ]

\* made when $.mvc.module has not run
Unmade ==
  [name |-> << >>, namespace |-> << >>, fullname |-> << >>, constructor |-> 0,
   prototype |-> NoTable]

\* call when $.mvc.module is not being looked at
NoModule ==
  [name |-> << >>, base |-> NoTable, baseIsModule |-> FALSE, proto |-> NoTable,
   ran |-> TRUE, before |-> << >>, made |-> Unmade, after |-> NoTable]

NamesInit ==
  /\ mvc = << >>
  /\ call = NoModule

\* the objects that exist before any user code runs
InitialHeap ==
  << EmptyObject,
     [plain |-> FALSE,
      f |-> [k \in KeySet |-> IF k = "count" THEN Prim(0) ELSE Undef]] >>

ModuleInit ==
  /\ heap = InitialHeap
  /\ defs = << ModuleDef >>
  /\ fsuper = [fn \in Fns |-> Null]
  /\ insts = <<>>
  /\ ret = NoRet
  /\ muts = [n |-> 0, owner |-> <<>>, path |-> <<>>, touched |-> {},
             before |-> << >>]
  /\ want = [defs |-> << EmptyLit >>, insts |-> <<>>]

\* values a cache call hands back
NullValue      == [kind |-> "null", def |-> 0]
Constructor(d) == [kind |-> "constructor", def |-> d]
Instance(i)    == [kind |-> "instance", def |-> i]
Truth(b)       == [kind |-> "boolean", def |-> IF b THEN 1 ELSE 0]

\* a function every object literal inherits from Object.prototype
Builtin        == [kind |-> "function", def |-> 0]

\* the value of cret when the last step was not a call on a cache
NoCret == [op |-> "", cache |-> "", name |-> "", generated |-> FALSE,
           err |-> "", value |-> NullValue, held |-> 0]

\* var proxyMap = {}, proxyGuid = 0, mediatorMap = {}, mediatorGuid = 0,
\* commandMap = {}
CacheInit ==
  /\ proxyMap = << >>
  /\ mediatorMap = << >>
  /\ commandMap = << >>
  /\ proxyGuid = 0
  /\ mediatorGuid = 0
  /\ closures = <<>>
  /\ hooks = <<>>
  /\ execs = <<>>
  /\ cret = NoCret
  /\ dups = {}

NotifierInit ==
  /\ observerMap = << >>
  /\ queue = <<>>
  /\ inprogress = FALSE
  /\ notificationSync = 0
  /\ maxSync \in (1..MaxMaxSync) \cup {Unbounded}
  /\ timers = 0
  /\ cur = <<>>
  /\ stack = <<>>
  /\ log = <<>>
  /\ notifs = <<>>
  /\ regOrder = [n \in Names |-> <<>>]
  /\ absent = [n \in Names |-> {}]
  /\ took = [n \in Names |-> FALSE]
  /\ nreg = 0
  /\ nrem = 0
  /\ yields = 0
  /\ burst = 0
  /\ completed = 0
  /\ raised = "no"

Init ==
  /\ ModuleInit
  /\ NamesInit
  /\ NotifierInit
  /\ CacheInit

\* user code calls $.mvc.notifier.register( name, observer )
RegisterCall(name, observer) ==
  /\ UserCode
  /\ Calls < MaxCalls
  /\ nreg' = nreg + 1
  /\ observerMap' = register(observerMap, name, observer)
  /\ regOrder' = [regOrder EXCEPT ![name] = Append(@, observer)]
  /\ absent' = [absent EXCEPT ![name] = @ \ {observer.context}]
  /\ UNCHANGED << queue, inprogress, notificationSync, maxSync, timers, cur,
                  stack, log, notifs, took, nrem, yields, burst, completed,
                  raised >>

\* register called by the application, the caches untouched
Register(name, observer) ==
  /\ RegisterCall(name, observer)
  /\ UNCHANGED mvars
  /\ UNCHANGED cvars

\* remove that also cancels the queued deliveries of the removed observers
RemoveCancelling(name, context) ==
  /\ UserCode
  /\ Calls < MaxCalls
  /\ nrem' = nrem + 1
  /\ observerMap' = remove(observerMap, name, context)
  /\ regOrder' = [regOrder EXCEPT
                    ![name] = SelectSeq(@, LAMBDA o : o.context # context)]
  /\ absent' = [absent EXCEPT ![name] = @ \cup {context}]
  /\ took' = [took EXCEPT ![name] = @ \/ (observerMap' # observerMap)]
  /\ queue' = SelectSeq(queue, LAMBDA t : t.observer.context # context)
  /\ UNCHANGED << inprogress, notificationSync, maxSync, timers, cur,
                  stack, log, notifs, nreg, yields, burst, completed, raised >>
  /\ UNCHANGED mvars
  /\ UNCHANGED cvars

\* user code calls $.mvc.notifier.remove( name, context )
RemoveCall(name, context) ==
  /\ UserCode
  /\ Calls < MaxCalls
  /\ nrem' = nrem + 1
  /\ observerMap' = remove(observerMap, name, context)
  /\ regOrder' = [regOrder EXCEPT
                    ![name] = SelectSeq(@, LAMBDA o : o.context # context)]
  /\ absent' = [absent EXCEPT ![name] = @ \cup {context}]
  /\ took' = [took EXCEPT ![name] = @ \/ (observerMap' # observerMap)]
  /\ UNCHANGED << queue, inprogress, notificationSync, maxSync, timers, cur,
                  stack, log, notifs, nreg, yields, burst, completed, raised >>

\* remove called by the application, the caches untouched
Remove(name, context) ==
  /\ RemoveCall(name, context)
  /\ UNCHANGED mvars
  /\ UNCHANGED cvars

\* user code calls $.mvc.notifier.notify( Notification( name, body ) )
NotifyCall(name) ==
  /\ UserCode
  /\ Calls < MaxCalls
  /\ LET id    == Len(notifs) + 1
         snap  == slice(observerMap, name)
         r     == each(Q, Tasks(id, snap))
         begun == r.run # <<>>
     IN  /\ queue' = r.queue
         /\ inprogress' = r.inprogress
         /\ cur' = IF begun THEN r.run ELSE cur
         /\ stack' = IF begun
                       THEN Append(stack, [loop |-> r.loop, caller |-> cur])
                       ELSE stack
         /\ log' = IF begun THEN log \o Stamp(r.run, name) ELSE log
         /\ burst' = IF begun THEN burst + 1 ELSE burst
         /\ notifs' = Append(notifs,
              [ name     |-> name,
                snap     |-> snap,
                expected |-> regOrder[name],
                absent   |-> absent[name],
                took     |-> took[name],
                removes  |-> nrem,
                open     |-> OpenIds(stack),
                pending  |-> Len(queue) + LoopLen(stack) + Len(snap),
                invoked  |-> Len(log),
                yields   |-> yields,
                sync     |-> notificationSync,
                begun    |-> begun,
                aborted  |-> FALSE ])
  /\ UNCHANGED << observerMap, notificationSync, maxSync, timers, regOrder,
                  absent, took, nreg, nrem, yields, completed, raised >>

\* notify called by the application, no command observed
Notify(name) ==
  /\ NotifyCall(name)
  /\ UNCHANGED mvars
  /\ UNCHANGED cvars

\* the running handler returns: the rest of the queued function runs
ReturnStep ==
  /\ InHandler
  /\ LET sync == notificationSync + 1
     IN  IF exceeds(sync, maxSync)
           THEN LET u == unwind(Q, stack)
                IN  /\ notificationSync' = 0
                    /\ timers' = timers + 1
                    /\ yields' = yields + 1
                    /\ queue' = u.queue
                    /\ inprogress' = u.inprogress
                    /\ cur' = u.cur
                    /\ stack' = u.stack
                    /\ log' = log \o Stamp(u.started, NameOf(u.started))
                    /\ burst' = Len(u.started)
                    /\ completed' = completed
           ELSE LET u == next(Q, stack)
                IN  /\ notificationSync' = sync
                    /\ timers' = timers
                    /\ yields' = yields
                    /\ queue' = u.queue
                    /\ inprogress' = u.inprogress
                    /\ cur' = u.cur
                    /\ stack' = u.stack
                    /\ log' = log \o Stamp(u.started, NameOf(u.started))
                    /\ burst' = burst + Len(u.started)
                    /\ completed' = completed + 1
  /\ UNCHANGED << observerMap, maxSync, notifs, regOrder, absent, took, nreg,
                  nrem, raised >>

\* a handler written by the application returns
HandlerReturn ==
  /\ ReturnStep
  /\ UNCHANGED mvars
  /\ UNCHANGED cvars

\* the running handler raises: nothing catches it, so every frame up to
\* the top-level caller (or the timer callback) is abandoned
ThrowStep ==
  /\ InHandler
  /\ cur' = <<>>
  /\ stack' = <<>>
  /\ raised' = IF stack = <<>> THEN "timer" ELSE "notify"
  /\ notifs' = [ k \in 1..Len(notifs) |->
                   IF \E f \in 1..Len(stack) :
                        \E j \in 1..Len(stack[f].loop) : stack[f].loop[j].id = k
                     THEN [notifs[k] EXCEPT !.aborted = TRUE]
                     ELSE notifs[k] ]
  /\ UNCHANGED << observerMap, queue, inprogress, notificationSync, maxSync,
                  timers, log, regOrder, absent, took, nreg, nrem, yields,
                  burst, completed >>

\* a handler written by the application raises
HandlerThrow ==
  /\ ThrowStep
  /\ UNCHANGED mvars
  /\ UNCHANGED cvars

\* a yield timer fires: next()
TimerStep ==
  /\ Idle
  /\ timers > 0
  /\ LET u == next(Q, stack)
     IN  /\ queue' = u.queue
         /\ inprogress' = u.inprogress
         /\ cur' = u.cur
         /\ stack' = u.stack
         /\ log' = log \o Stamp(u.started, NameOf(u.started))
         /\ burst' = Len(u.started)
  /\ timers' = timers - 1
  /\ completed' = completed + 1
  /\ UNCHANGED << observerMap, notificationSync, maxSync, notifs, regOrder,
                  absent, took, nreg, nrem, yields, raised >>

\* a yield timer fires, no command observed
TimerFire ==
  /\ TimerStep
  /\ UNCHANGED mvars
  /\ UNCHANGED cvars

Next ==
  \/ \E n \in Names, o \in Observers : Register(n, o)
  \/ \E n \in Names, c \in Contexts : Remove(n, c)
  \/ \E n \in Names : Notify(n)
  \/ HandlerReturn
  \/ HandlerThrow
  \/ TimerFire

Spec == Init /\ [][Next]_vars

\* Observers registered again and again, none removed, no handler raising.
Repeated == { [fn |-> "f1", context |-> "c1"], [fn |-> "f2", context |-> "c2"] }

NextRepeat ==
  \/ \E n \in Names, o \in Repeated : Register(n, o)
  \/ \E n \in Names : Notify(n)
  \/ HandlerReturn
  \/ TimerFire

SpecRepeat == Init /\ [][NextRepeat]_vars

\* The same calls when every handler returns and every timer fires: a
\* handler that has been entered runs to its end (it may call register and
\* notify first), and the browser runs a setTimeout callback once the
\* script that scheduled it has finished.
SpecFair ==
  /\ Init
  /\ [][NextRepeat]_vars
  /\ WF_vars(HandlerReturn)
  /\ WF_vars(TimerFire)

\* remove applied to every list of observers register can have built: the
\* lists of up to MaxList observers, each the outcome of that many register
\* calls in that order.
RECURSIVE Lists(_)
Lists(len) ==
  IF len = 0
    THEN { << >> }
    ELSE Lists(len - 1) \cup
         { Append(l, o) : l \in { x \in Lists(len - 1) : Len(x) = len - 1 },
                          o \in Observers }

\* a context no observer has
Stranger == "c3"

InitRemove ==
  /\ ModuleInit
  /\ NamesInit
  /\ CacheInit
  /\ \E l \in Lists(MaxList) :
       /\ observerMap = IF l = << >> THEN << >> ELSE [n \in Names |-> l]
       /\ regOrder = [n \in Names |-> l]
       /\ nreg = Len(l)
  /\ queue = <<>>
  /\ inprogress = FALSE
  /\ notificationSync = 0
  /\ maxSync = Unbounded
  /\ timers = 0
  /\ cur = <<>>
  /\ stack = <<>>
  /\ log = <<>>
  /\ notifs = <<>>
  /\ absent = [n \in Names |-> {}]
  /\ took = [n \in Names |-> FALSE]
  /\ nrem = 0
  /\ yields = 0
  /\ burst = 0
  /\ completed = 0
  /\ raised = "no"

NextRemove ==
  \E n \in Names, c \in Contexts \cup { Stranger } : Remove(n, c)

SpecRemove == InitRemove /\ [][NextRemove]_vars

(* ------------------ the module system: user code ----------------------- *)
\* the variables of the notifier
nvars == << observerMap, queue, inprogress, notificationSync, maxSync, timers,
            cur, stack, log, notifs, regOrder, absent, took, nreg, nrem,
            yields, burst, completed, raised >>

\* The result of $.extend( true, {}, a, b ) read as an object literal:
\* b wins on every member it defines, nested plain objects are merged
\* member by member, and a member that b replaces by something that is no
\* plain object loses what a had below it.
mergeTree(a, b) ==
  [ p \in Paths |->
      IF Len(p) = 1
        THEN IF b[p].t # "u" THEN b[p] ELSE a[p]
        ELSE LET q == << p[1] >>
             IN  CASE b[q].t = "u" -> a[p]
                   [] b[q].t = "o" ->
                        IF a[q].t = "o" /\ b[p].t = "u" THEN a[p] ELSE b[p]
                   [] OTHER -> Undef ]

\* new D( args ): the constructor made by $.mvc.module
construct(h, ds, d, args) ==
  IF Len(args) > 0
    THEN _createModule(h, ds, d, args)
    ELSE [heap |-> h,
          inst |-> [def |-> d, name |-> NameOfArg(Undefined),
                   options |-> ds[d].options]]

\* who holds an options object: a prototype or an instance
Owners == { <<"def", d>> : d \in 1..Len(defs) } \cup
          { <<"inst", i>> : i \in 1..Len(insts) }

OptionsOf(o) == IF o[1] = "def" THEN defs[o[2]].options ELSE insts[o[2]].options

\* prototype tables passed to $.mvc.module by the application
MethodProtos ==
  { [methods |-> Methods({ <<"f", "fA">>, <<"g", "gA">>, <<"h", "hA">> }),
     options |-> EmptyLit],
    [methods |-> Methods({ <<"f", "fB">> }), options |-> EmptyLit],
    [methods |-> Methods({ <<"f", "fC">> }), options |-> EmptyLit],
    [methods |-> Methods({ <<"g", "gC">> }), options |-> EmptyLit],
    [methods |-> Methods({ <<"g", "fB">> }), options |-> EmptyLit] }

\* the options declared by the definitions of a chain, level by level
OptionChain ==
  << [methods |-> NoMethods,
      options |-> Lit({ << <<"count">>, Prim(0) >>,
                        << <<"sub">>, Obj >>,
                        << <<"sub", "count">>, Prim(0) >>,
                        << <<"ext">>, Ext(External) >> })],
     [methods |-> NoMethods,
      options |-> Lit({ << <<"count">>, Prim(5) >> })],
     [methods |-> NoMethods,
      options |-> Lit({ << <<"sub">>, Obj >>,
                        << <<"sub", "count">>, Prim(9) >> })] >>

\* the proto of the next definition of the chain
NextProto == OptionChain[((Len(defs) - 1) % Len(OptionChain)) + 1]

\* option hashes passed to constructors
Overrides ==
  { Lit({ << <<"count">>, Prim(5) >> }),
    Lit({ << <<"count">>, Prim(9) >>,
          << <<"sub">>, Obj >>,
          << <<"sub", "count">>, Prim(5) >> }) }

\* the members user code assigns to
Writable == { <<"count">>, <<"sub", "count">>, <<"ext", "count">> }

\* user code calls $.mvc.module( name, defs[base], proto )
Derive(base, proto) ==
  /\ Len(defs) <= MaxDefs
  /\ LET r == module(heap, defs, fsuper, base, proto)
     IN  /\ heap' = r.heap
         /\ defs' = r.defs
         /\ fsuper' = r.fsuper
  /\ want' = [want EXCEPT !.defs =
                Append(@, mergeTree(Tree(heap, defs[base].options), proto.options))]
  /\ ret' = NoRet
  /\ UNCHANGED << insts, muts, mvc, call >>
  /\ UNCHANGED nvars
  /\ UNCHANGED cvars

\* user code calls new defs[d]( args )
Create(d, args) ==
  /\ Len(insts) < MaxInsts
  /\ LET r == construct(heap, defs, d, args)
     IN  /\ heap' = r.heap
         /\ insts' = Append(insts, r.inst)
  /\ want' = [want EXCEPT !.insts =
                Append(@, mergeTree(Tree(heap, defs[d].options), Arg(args, 2).lit))]
  /\ ret' = NoRet
  /\ UNCHANGED << defs, fsuper, muts, mvc, call >>
  /\ UNCHANGED nvars
  /\ UNCHANGED cvars

\* user code assigns to a member of an options object it reaches through
\* a prototype or an instance; a behaviour holds one such write, observed
\* against the state before it
Mutate(owner, p) ==
  /\ muts.n = 0
  /\ Len(p) = 2 => heap[OptionsOf(owner)].f[p[1]].t = "r"
  /\ LET root   == OptionsOf(owner)
         target == IF Len(p) = 1 THEN root ELSE heap[root].f[p[1]].v
     IN  heap' = [heap EXCEPT ![target].f[p[Len(p)]] = Prim(7)]
  /\ muts' = [n |-> muts.n + 1, owner |-> owner, path |-> p,
              touched |-> muts.touched \cup {owner},
              before |-> [o \in Owners |-> Content(heap, OptionsOf(o))]]
  /\ ret' = NoRet
  /\ UNCHANGED << defs, fsuper, insts, want, mvc, call >>
  /\ UNCHANGED nvars
  /\ UNCHANGED cvars

\* user code calls insts[i].m( arg )
Call(i, m, arg) ==
  /\ LET fn == method(defs, insts[i].def, m)
         r  == IF fn = Null
                 THEN [trace |-> <<>>, result |-> NotFn]
                 ELSE invoke(defs, fsuper, insts, fn, i, arg, MaxStack)
     IN  ret' = [inst |-> i, m |-> m, arg |-> arg, trace |-> r.trace,
                 result |-> r.result]
  /\ UNCHANGED << heap, defs, fsuper, insts, muts, want, mvc, call >>
  /\ UNCHANGED nvars
  /\ UNCHANGED cvars

\* Derivation chains and method calls.  Instances are made of derived
\* definitions ($.mvc.Module itself has no method to call), and a call,
\* which changes nothing, is followed by a derivation or a construction.
NextSuper ==
  \/ \E proto \in MethodProtos : Derive(Len(defs), proto)
  \/ Len(defs) > 1 /\ Create(Len(defs), << Str("i") >>)
  \/ ret = NoRet /\ \E i \in 1..Len(insts), m \in MethodSet : Call(i, m, 1)

InitSuper == Init /\ maxSync = Unbounded

SpecSuper == InitSuper /\ [][NextSuper]_vars

\* a derivation chain, construction and a write to options
NextOptions ==
  \/ Derive(Len(defs), NextProto)
  \/ \E o \in Overrides : Create(Len(defs), << Str("i"), Hash(o) >>)
  \/ \E owner \in Owners, p \in Writable : Mutate(owner, p)

SpecOptions == InitSuper /\ [][NextOptions]_vars

(* --------------------------- the caches -------------------------------- *)
\* The prototypes the library derives when it is loaded, and three classes
\* of an application derived from them; the numbers index defs.
ProxyDef      == 2     \* $.mvc.Proxy
MediatorDef   == 3     \* $.mvc.Mediator
CommandDef    == 4     \* $.mvc.Command
ProxyClass    == 5     \* an application's proxy class
MediatorClass == 6     \* an application's mediator class
CommandClass  == 7     \* an application's command class
MuteClass     == 8     \* a mediator class whose interest names no function

Bare == [methods |-> NoMethods, options |-> EmptyLit]

\* the command class declares default options
CommandProto ==
  [methods |-> NoMethods,
   options |-> Lit({ << <<"count">>, Prim(0) >>,
                     << <<"sub">>, Obj >>,
                     << <<"sub", "count">>, Prim(0) >> })]

\* the mediator class declares the handler f
MediatorProto ==
  [methods |-> Methods({ << "f", "fA" >> }), options |-> EmptyLit]

Load(r, base, proto) == module(r.heap, r.defs, r.fsuper, base, proto)

\* $.mvc.Proxy, $.mvc.Mediator and $.mvc.Command
Library ==
  LET r0 == [heap |-> InitialHeap, defs |-> << ModuleDef >>,
             fsuper |-> [fn \in Fns |-> Null]]
  IN  Load(Load(Load(r0, 1, Bare), 1, Bare), 1, Bare)

\* $.mvc.proxy( .. ), $.mvc.mediator( .. ) and $.mvc.command( .. ) of the
\* application
Application ==
  Load(Load(Load(Load(Library, ProxyDef, Bare), MediatorDef, MediatorProto),
            CommandDef, CommandProto),
       MediatorDef, Bare)

\* notificationInterests as a mediator of class d reads it: notification
\* name -> member name. The application's first mediator class declares
\* { n1: "f" }; $.mvc.module merges that into the object of
\* $.mvc.Mediator.prototype, which every mediator class reads, so the
\* second class, which declares no interest and has no member f, reads
\* the same entry.
InterestsOf(d) ==
  IF d \in { MediatorClass, MuteClass }
    THEN << [name |-> "n1", fn |-> "f"] >>
    ELSE <<>>

\* a test that takes every member for a function
isFunctionAny(d, m) == TRUE

\* $.isFunction( fn = mediator[ fn ] )
isFunction(d, m) == method(defs, d, m) # Null

\* $.mvc.Observer( fn, context )
Observer(fn, context) == [fn |-> fn, context |-> context]

\* the context of the observers of the controller, and of a mediator
Controller == "controller"
Ctx(i)     == ToString(i)

\* history: the observers with context c in the lists of a map
RECURSIVE ObserversWith(_, _)
ObserversWith(map, c) ==
  IF DOMAIN map = {}
    THEN 0
    ELSE LET n == CHOOSE m \in DOMAIN map : TRUE
         IN  Len(SelectSeq(map[n], LAMBDA o : o.context = c)) +
             ObserversWith([m \in DOMAIN map \ {n} |-> map[m]], c)

\* the factory function made by the k-th successful controller.register
Factory(k) == ToString(k)
ClosureOf(fn) == CHOOSE k \in 1..Len(closures) : Factory(k) = fn

\* The maps are object literals: next to the entries assigned to them they
\* hold, under names such as toString, what Object.prototype gives to every
\* object. One such name stands for all of them.
Inherited == { "toString" }

\* name is an entry assigned to the map and not deleted since
owns(map, name) == name \in DOMAIN map

\* map[ name ] !== undefined
has(map, name) == owns(map, name) \/ name \in Inherited

\* the argument of remove: a name, or an instance
Held(i) == [kind |-> "object", inst |-> i]

\* if ( typeof proxy === "object" ) { proxy = proxy.getName(); }
keyOf(arg) == IF arg.kind = "object" THEN insts[arg.inst].name.s ELSE arg.s

\* map[ name ] = value
put(map, name, value) ==
  [ m \in DOMAIN map \cup {name} |-> IF m = name THEN value ELSE map[m] ]

\* a delete that leaves the entry where it is
delKeep(map, name) == map

\* delete map[ name ]
del(map, name) == [ m \in DOMAIN map \ {name} |-> map[m] ]

\* the optional name: a generated one when the first argument is no string
nameFor(prefix, guid, nameArg) ==
  IF nameArg.kind = "string"
    THEN [name |-> nameArg.s, guid |-> guid, generated |-> FALSE]
    ELSE [name |-> prefix \o ToString(guid + 1), guid |-> guid + 1,
          generated |-> TRUE]

\* a register that raises on a name in use but replaces the entry
storeOverwrite(map, name, value) ==
  [err |-> IF has(map, name) THEN "duplicate" ELSE "",
   map |-> put(map, name, value)]

\* the duplicate check of register followed by map[ name ] = value
store(map, name, value) ==
  IF has(map, name)
    THEN [err |-> "duplicate", map |-> map]
    ELSE [err |-> "", map |-> put(map, name, value)]

\* what a call on a cache hands back or raises; held is the instance the
\* call was given as its argument, 0 when it was given none
Outcome(op, cache, g, err, value) ==
  [op |-> op, cache |-> cache, name |-> g.name, generated |-> g.generated,
   err |-> err, value |-> value, held |-> 0]

\* the instance passed to remove
heldBy(arg) == IF arg.kind = "object" THEN arg.inst ELSE 0

Given(name) == [name |-> name, guid |-> 0, generated |-> FALSE]

Raised(cache, err) == IF err = "duplicate" THEN dups \cup {cache} ELSE dups

\* calls left to top-level code
Budget == Len(hooks) + Calls < MaxCalls

\* $.mvc.model.register( name, proxy, options, data ), name optional
ModelRegister(nameArg, d, options) ==
  /\ Idle
  /\ Budget
  /\ LET g == nameFor("proxy-", proxyGuid, nameArg)
         i == Len(insts) + 1
         s == store(proxyMap, g.name, i)
         r == construct(heap, defs, d, << Str(g.name), Hash(options) >>)
     IN  /\ proxyGuid' = g.guid
         /\ proxyMap' = s.map
         /\ cret' = Outcome("register", "model", g, s.err, NullValue)
         /\ dups' = Raised("model", s.err)
         /\ IF s.err = ""
              THEN /\ Len(insts) < MaxInsts
                   /\ heap' = r.heap
                   /\ insts' = Append(insts, r.inst)
                   /\ want' = [want EXCEPT !.insts =
                        Append(@, mergeTree(Tree(heap, defs[d].options), options))]
                   /\ hooks' = Append(hooks,
                        [hook |-> "_register", inst |-> i,
                         has |-> has(s.map, g.name),
                         observers |-> ObserversWith(observerMap, Ctx(i))])
              ELSE UNCHANGED << heap, insts, want, hooks >>
  /\ UNCHANGED << mediatorMap, commandMap, mediatorGuid, closures, execs >>
  /\ UNCHANGED << defs, fsuper, ret, muts, mvc, call >>
  /\ UNCHANGED nvars

\* $.mvc.model.has( name )
ModelHas(name) ==
  /\ Idle
  /\ Budget
  /\ cret' = Outcome("has", "model", Given(name), "",
                     Truth(has(proxyMap, name)))
  /\ UNCHANGED << proxyMap, mediatorMap, commandMap, proxyGuid, mediatorGuid,
                  closures, hooks, execs, dups >>
  /\ UNCHANGED mvars
  /\ UNCHANGED nvars

\* $.mvc.model.get( name ): has( name ) ? proxyMap[ name ] : null
ModelGet(name) ==
  /\ Idle
  /\ Budget
  /\ cret' = Outcome("get", "model", Given(name), "",
                     IF has(proxyMap, name)
                       THEN IF owns(proxyMap, name)
                              THEN Instance(proxyMap[name])
                              ELSE Builtin
                       ELSE NullValue)
  /\ UNCHANGED << proxyMap, mediatorMap, commandMap, proxyGuid, mediatorGuid,
                  closures, hooks, execs, dups >>
  /\ UNCHANGED mvars
  /\ UNCHANGED nvars

\* what remove does with map[ name ]: nothing when it is undefined, the
\* removal when it is an instance; an inherited function has no getName and
\* the call of it raises
removal(map, name) ==
  IF owns(map, name) THEN "remove"
  ELSE IF has(map, name) THEN "TypeError"
  ELSE ""

\* $.mvc.model.remove( proxy ), proxy a name or an instance
ModelRemove(arg) ==
  /\ Idle
  /\ Budget
  /\ LET name == keyOf(arg)
         todo == removal(proxyMap, name)
     IN  /\ cret' = [Outcome("remove", "model", Given(name),
                             IF todo = "remove" THEN "" ELSE todo, NullValue)
                       EXCEPT !.held = heldBy(arg)]
         /\ IF todo = "remove"
              THEN /\ proxyMap' = del(proxyMap, name)
                   /\ hooks' = Append(hooks,
                        [hook |-> "_remove", inst |-> proxyMap[name],
                         has |-> has(del(proxyMap, name), name),
                         observers |->
                           ObserversWith(observerMap, Ctx(proxyMap[name]))])
              ELSE UNCHANGED << proxyMap, hooks >>
  /\ UNCHANGED << mediatorMap, commandMap, proxyGuid, mediatorGuid, closures,
                  execs, dups >>
  /\ UNCHANGED mvars
  /\ UNCHANGED nvars

\* $.mvc.view.register( name, mediator, options, element ), name optional
ViewRegister(nameArg, d, options) ==
  /\ Idle
  /\ Budget
  /\ LET g == nameFor("mediator-", mediatorGuid, nameArg)
         i == Len(insts) + 1
         s == store(mediatorMap, g.name, i)
         r == construct(heap, defs, d, << Str(g.name), Hash(options) >>)
     IN  /\ mediatorGuid' = g.guid
         /\ mediatorMap' = s.map
         /\ cret' = Outcome("register", "view", g, s.err, NullValue)
         /\ dups' = Raised("view", s.err)
         /\ IF s.err = ""
              THEN /\ Len(insts) < MaxInsts
                   /\ heap' = r.heap
                   /\ insts' = Append(insts, r.inst)
                   /\ want' = [want EXCEPT !.insts =
                        Append(@, mergeTree(Tree(heap, defs[d].options), options))]
                   /\ IF InterestsOf(d) # <<>>
                           /\ isFunction(d, InterestsOf(d)[1].fn)
                        THEN RegisterCall(InterestsOf(d)[1].name,
                               Observer(method(defs, d, InterestsOf(d)[1].fn),
                                        Ctx(i)))
                        ELSE UNCHANGED nvars
                   /\ hooks' = Append(hooks,
                        [hook |-> "_register", inst |-> i,
                         has |-> has(s.map, g.name),
                         observers |-> ObserversWith(observerMap', Ctx(i))])
              ELSE UNCHANGED << heap, insts, want, hooks, nvars >>
  /\ UNCHANGED << proxyMap, commandMap, proxyGuid, closures, execs >>
  /\ UNCHANGED << defs, fsuper, ret, muts, mvc, call >>

\* $.mvc.view.remove( mediator ), mediator a name or an instance
ViewRemove(arg) ==
  /\ Idle
  /\ Budget
  /\ cret' = [Outcome("remove", "view", Given(keyOf(arg)),
                      IF removal(mediatorMap, keyOf(arg)) = "remove"
                        THEN "" ELSE removal(mediatorMap, keyOf(arg)),
                      NullValue)
                EXCEPT !.held = heldBy(arg)]
  /\ IF removal(mediatorMap, keyOf(arg)) = "remove"
       THEN LET name == keyOf(arg)
                i == mediatorMap[name]
                d == insts[i].def
            IN  /\ IF InterestsOf(d) # <<>>
                     THEN RemoveCall(InterestsOf(d)[1].name, Ctx(i))
                     ELSE UNCHANGED nvars
                /\ mediatorMap' = del(mediatorMap, name)
                /\ hooks' = Append(hooks,
                     [hook |-> "_remove", inst |-> i,
                      has |-> has(del(mediatorMap, name), name),
                      observers |-> ObserversWith(observerMap', Ctx(i))])
       ELSE UNCHANGED << mediatorMap, hooks, nvars >>
  /\ UNCHANGED << proxyMap, commandMap, proxyGuid, mediatorGuid, closures,
                  execs, dups >>
  /\ UNCHANGED mvars

\* $.mvc.view.get( name ): the object $.mvc.view has the members has,
\* register and remove and no member get, so the call raises
ViewGet(name) ==
  /\ Idle
  /\ Budget
  /\ cret' = Outcome("get", "view", Given(name), "TypeError", NullValue)
  /\ UNCHANGED << proxyMap, mediatorMap, commandMap, proxyGuid, mediatorGuid,
                  closures, hooks, execs, dups >>
  /\ UNCHANGED mvars
  /\ UNCHANGED nvars

\* $.mvc.controller.register( notificationName, command, options )
ControllerRegister(name, d, options) ==
  /\ Idle
  /\ Budget
  /\ LET k        == Len(closures) + 1
         observer == Observer(Factory(k), Controller)
         s        == store(commandMap, name, observer)
     IN  /\ commandMap' = s.map
         /\ cret' = Outcome("register", "controller", Given(name), s.err, NullValue)
         /\ dups' = Raised("controller", s.err)
         /\ IF s.err = ""
              THEN /\ closures' = Append(closures,
                                         [command |-> d, options |-> options])
                   /\ RegisterCall(name, observer)
              ELSE UNCHANGED << closures, nvars >>
  /\ UNCHANGED << proxyMap, mediatorMap, proxyGuid, mediatorGuid, hooks, execs >>
  /\ UNCHANGED mvars

\* $.mvc.controller.remove( notificationName )
ControllerRemove(name) ==
  /\ Idle
  /\ Budget
  /\ cret' = Outcome("remove", "controller", Given(name), "", NullValue)
  /\ IF has(commandMap, name)
       THEN /\ RemoveCall(name, Controller)
            /\ commandMap' = del(commandMap, name)
       ELSE UNCHANGED << commandMap, nvars >>
  /\ UNCHANGED << proxyMap, mediatorMap, proxyGuid, mediatorGuid, closures,
                  hooks, execs, dups >>
  /\ UNCHANGED mvars

\* $.mvc.controller.get( name )
ControllerGet(name) ==
  /\ Idle
  /\ Budget
  /\ cret' = Outcome("get", "controller", Given(name), "",
                     IF has(commandMap, name) THEN commandMap[name] ELSE NullValue)
  /\ UNCHANGED << proxyMap, mediatorMap, commandMap, proxyGuid, mediatorGuid,
                  closures, hooks, execs, dups >>
  /\ UNCHANGED mvars
  /\ UNCHANGED nvars

\* The function wrapped by the controller's observer, run when a step has
\* invoked it: var instance = new command( options ); the call of
\* instance.execute( notification ) then runs user code.
Factories ==
  IF Len(log') > Len(log) /\ log'[Len(log')].observer.context = Controller
    THEN LET t == log'[Len(log')]
             k == ClosureOf(t.observer.fn)
             c == closures[k]
             r == construct(heap, defs, c.command, << c.options >>)
         IN  /\ Len(insts) < MaxInsts
             /\ heap' = r.heap
             /\ insts' = Append(insts, r.inst)
             /\ want' = [want EXCEPT !.insts =
                  Append(@, mergeTree(Tree(heap, defs[c.command].options),
                                      c.options.lit))]
             /\ execs' = Append(execs,
                  [inst |-> Len(insts) + 1, id |-> t.id, closure |-> k])
    ELSE UNCHANGED << heap, insts, want, execs >>

\* what a step of the notifier leaves alone in the caches
Quiet ==
  /\ cret' = NoCret
  /\ UNCHANGED << proxyMap, mediatorMap, commandMap, proxyGuid, mediatorGuid,
                  closures, hooks, dups >>
  /\ UNCHANGED << defs, fsuper, ret, muts, mvc, call >>

\* notify with the caches in use: a handler it invokes may be a factory.
\* Under an inherited name observerMap[ name ] is a function, which has no
\* slice: the call raises before anything is enqueued.
Send(name) ==
  /\ Idle
  /\ IF has(observerMap, name) /\ ~owns(observerMap, name)
       THEN /\ cret' = Outcome("notify", "notifier", Given(name), "TypeError",
                               NullValue)
            /\ UNCHANGED << proxyMap, mediatorMap, commandMap, proxyGuid,
                            mediatorGuid, closures, hooks, execs, dups >>
            /\ UNCHANGED mvars
            /\ UNCHANGED nvars
       ELSE NotifyCall(name) /\ Factories /\ Quiet

\* notify as one of the calls of top-level code on the caches
Broadcast(name) == Budget /\ Send(name)

\* a handler of a mediator, or execute of a command, returns
Return == ReturnStep /\ Factories /\ Quiet

\* a handler of a mediator, or execute of a command, raises
Throw == ThrowStep /\ Factories /\ Quiet

\* a yield timer fires with the caches in use
Timer == TimerStep /\ Factories /\ Quiet

\* The calls on the caches and on the notifier are made by top-level code;
\* the handlers of mediators and commands return or raise.
\* the first arguments of register: a name, or none
ProxyNames    == { Str("proxy-1"), Undefined }
MediatorNames == { Str("mediator-1"), Undefined }

\* the names asked for: one that register uses, and an inherited one
ProxyKeys    == { "proxy-1" } \cup Inherited
MediatorKeys == { "mediator-1" } \cup Inherited

\* the arguments of remove: a name, or an instance made before
Removable(keys) ==
  { Str(k) : k \in keys } \cup
  { Held(i) : i \in { j \in 1..Len(insts) : insts[j].def # CommandClass } }

\* the mediator classes of the application
MediatorClasses == { MediatorClass, MuteClass }

\* the options argument of controller.register: a hash, or none
CommandOptions == { Hash(Lit({ << <<"count">>, Prim(5) >> })), Undefined }

NextCaches ==
  \/ \E a \in ProxyNames : ModelRegister(a, ProxyClass, EmptyLit)
  \/ ModelRemove(Str("proxy-1"))
  \/ \E a \in MediatorNames : ViewRegister(a, MediatorClass, EmptyLit)
  \/ ViewRemove(Str("mediator-1"))
  \/ \E n \in Names, o \in CommandOptions : ControllerRegister(n, CommandClass, o)
  \/ \E n \in Names : ControllerRemove(n)
  \/ \E n \in Names : ControllerGet(n)
  \/ \E n \in Names \cup Inherited : Broadcast(n)
  \/ Return
  \/ Throw
  \/ Timer

\* the library loaded and the classes of the application defined
InitCaches ==
  /\ heap = Application.heap
  /\ defs = Application.defs
  /\ fsuper = Application.fsuper
  /\ insts = <<>>
  /\ ret = NoRet
  /\ muts = [n |-> 0, owner |-> <<>>, path |-> <<>>, touched |-> {},
             before |-> << >>]
  /\ want = [defs |-> [d \in 1..Len(Application.defs) |->
                         Tree(Application.heap, Application.defs[d].options)],
             insts |-> <<>>]
  /\ NamesInit
  /\ NotifierInit
  /\ maxSync = 1
  /\ CacheInit

SpecCaches == InitCaches /\ [][NextCaches]_vars

\* The model and the view asked for what they hold: register, remove by
\* name or by instance, has and get, also under an inherited name.
NextLookup ==
  \/ \E a \in ProxyNames : ModelRegister(a, ProxyClass, EmptyLit)
  \/ \E a \in Removable(ProxyKeys) : ModelRemove(a)
  \/ \E n \in ProxyKeys : ModelHas(n)
  \/ \E n \in ProxyKeys : ModelGet(n)
  \/ \E a \in MediatorNames, d \in MediatorClasses :
       ViewRegister(a, d, EmptyLit)
  \/ \E a \in Removable(MediatorKeys) : ViewRemove(a)
  \/ \E n \in MediatorKeys : ViewGet(n)

SpecLookup == InitCaches /\ [][NextLookup]_vars

\* Mediators registered and removed while notifications are sent.
NextView ==
  \/ \E a \in MediatorNames, d \in MediatorClasses :
       ViewRegister(a, d, EmptyLit)
  \/ \E a \in Removable({ "mediator-1" }) : ViewRemove(a)
  \/ \E n \in Names : Send(n)
  \/ Return
  \/ Throw
  \/ Timer

SpecView == InitCaches /\ [][NextView]_vars

(* ------------------- $.mvc.module called by user code ------------------ *)
\* $.mvc.module( name, base, proto ): the name resolved, the constructor, a
\* new function, stored in its namespace, and the prototype composed
DefineModule ==
  /\ ~call.ran
  /\ LET r            == resolve(call.name)
         constructor  == 1
         namespaceObj == IF r.namespace # << >>
                           THEN IF r.namespace \in DOMAIN mvc
                                  THEN mvc[r.namespace]
                                  ELSE << >>
                           ELSE << >>
     IN  /\ mvc' = IF r.namespace # << >>
                     THEN put(mvc, r.namespace,
                              put(namespaceObj, r.name, constructor))
                     ELSE mvc
         /\ call' = [call EXCEPT
                       !.ran = TRUE,
                       !.before = mvc,
                       !.made = [name |-> r.name,
                                 namespace |-> r.namespace,
                                 fullname |-> r.fullname,
                                 constructor |-> constructor,
                                 prototype |->
                                   compose(call.base,
                                           structural(call.baseIsModule),
                                           call.proto)],
                       !.after = composeBase(call.base,
                                             structural(call.baseIsModule),
                                             call.proto)]
  /\ UNCHANGED << heap, defs, fsuper, insts, ret, muts, want >>
  /\ UNCHANGED nvars
  /\ UNCHANGED cvars

\* what $.mvc holds before the call: nothing of the application, or the
\* namespace a with the constructor of an earlier module a.b
Registries ==
  { << >>, [ns \in { << "a" >> } |-> [m \in { << "b" >> } |-> 0]] }

\* $.mvc.module about to be called with a name
InitNames ==
  /\ ModuleInit
  /\ NotifierInit
  /\ maxSync = Unbounded
  /\ CacheInit
  /\ mvc \in Registries
  /\ \E str \in Strings(MaxName) :
       call = [NoModule EXCEPT !.name = str, !.ran = FALSE]

SpecNames == InitNames /\ [][DefineModule]_vars

\* $.mvc.module about to be called with a base prototype and a definition
\* table that hold a member
InitCompose ==
  /\ ModuleInit
  /\ NotifierInit
  /\ maxSync = Unbounded
  /\ CacheInit
  /\ mvc = << >>
  /\ \E k \in ProtoKeys, inherited \in Values, own \in Values,
        m \in BOOLEAN :
       call = [NoModule EXCEPT
                 !.name = << "a", ".", "b" >>,
                 !.base = Only(k, inherited),
                 !.baseIsModule = m,
                 !.proto = Only(k, own),
                 !.ran = FALSE]

SpecCompose == InitCompose /\ [][DefineModule]_vars

(* ------------------------ views of the history ------------------------- *)
Ids == 1..Len(notifs)

\* tasks whose handler has not been invoked yet
Pending == queue \o LoopTasks(stack)

ObserversOf(tasks) == [ j \in 1..Len(tasks) |-> tasks[j].observer ]

\* the observers invoked so far for notification k, in invocation order
Delivered(k) == ObserversOf(SelectSeq(log, LAMBDA t : t.id = k))

\* the observers of notification k still to be invoked
Waiting(k) == ObserversOf(SelectSeq(Pending, LAMBDA t : t.id = k))

\* every delivery of notification k has been made and has returned
Drained(k) == Waiting(k) = <<>> /\ (cur = <<>> \/ cur[1].id # k)

IsPrefix(s, t) == Len(s) <= Len(t) /\ s = SubSeq(t, 1, Len(s))

(* ------------------------------ claims --------------------------------- *)

\* C1: when only register calls (no remove) preceded a notify and no handler
\* has raised, every registration of that name is accounted for exactly
\* once, as a handler invocation made or as a delivery still to be made; so
\* once the queue has drained each registered handler was invoked exactly
\* once per registration.
C1_RegisteredInvokedOnce ==
  \A k \in Ids :
    (notifs[k].removes = 0 /\ raised = "no") =>
      /\ SeqToBag(Delivered(k) \o Waiting(k)) = SeqToBag(notifs[k].expected)
      /\ Drained(k) => SeqToBag(Delivered(k)) = SeqToBag(notifs[k].expected)

C1_Witness ==
  \E k \in Ids :
    /\ notifs[k].removes = 0
    /\ raised = "no"
    /\ Len(notifs[k].expected) >= 2
    /\ Idle /\ timers = 0
    /\ Drained(k)
    /\ Len(Delivered(k)) = Len(notifs[k].expected)

\* C2: the observers that receive a notification are those in the list at
\* the moment notify was called: nobody else is ever invoked for it, and
\* unless a raised error abandoned the call every one of them is either
\* invoked or still queued, whatever register and remove calls came later.
C2_DeliverySetFixedAtCall ==
  \A k \in Ids :
    /\ SeqToBag(Delivered(k)) \sqsubseteq SeqToBag(notifs[k].snap)
    /\ ~notifs[k].aborted =>
         SeqToBag(Delivered(k) \o Waiting(k)) = SeqToBag(notifs[k].snap)

\* a notification has been delivered in full, one of its handlers was
\* invoked after its observer had been removed, and an observer registered
\* after the call is in the list and was not invoked
C2_Witness ==
  \E k \in Ids :
    /\ Drained(k)
    /\ Len(Delivered(k)) = Len(notifs[k].snap)
    /\ \E p \in 1..Len(log) : log[p].id = k /\ ~log[p].live
    /\ \E x \in 1..Len(slice(observerMap, notifs[k].name)) :
         \A j \in 1..Len(notifs[k].snap) :
           notifs[k].snap[j] # slice(observerMap, notifs[k].name)[x]

\* C3: a run of handler invocations with no yield in it never has more
\* than options.maxSync invocations.
C3_BurstWithinMaxSync == burst <= maxSync

\* C4 (as claimed): every handler invocation of an earlier notify call
\* precedes every handler invocation of a later notify call.
C4_EarlierCallFirst ==
  \A p, q \in 1..Len(log) : p < q => log[p].id <= log[q].id

\* C4 (amended): an invocation of a later call precedes an invocation of an
\* earlier call only when the later call was made from inside a handler
\* while the earlier call was still queuing its observers, and the earlier
\* invocation is of an observer that call had not queued yet.
C4_QueueOrder ==
  \A p, q \in 1..Len(log) :
    (p < q /\ log[p].id > log[q].id) =>
       log[q].id \in notifs[log[p].id].open

\* two notifications, the second issued while deliveries of the first were
\* queued and its call had returned, both delivered in full
C4_Witness ==
  /\ Len(notifs) >= 2
  /\ notifs[2].open = {}
  /\ notifs[2].pending > Len(notifs[2].snap)
  /\ Len(notifs[2].snap) >= 1
  /\ Drained(1) /\ Drained(2)
  /\ Len(Delivered(1)) >= 2
  /\ Len(Delivered(2)) = Len(notifs[2].snap)

\* C5 (as claimed): the handlers of one notify call are invoked in the
\* order in which their observers were registered.
C5_RegistrationOrder ==
  \A k \in Ids : IsPrefix(Delivered(k), notifs[k].expected)

\* C5 (amended): the handlers of one notify call are invoked in the order
\* of the observer list at the moment of the call, which is registration
\* order as long as no remove call has taken an observer out of that list.
C5_ListOrder ==
  \A k \in Ids :
    /\ IsPrefix(Delivered(k), notifs[k].snap)
    /\ ~notifs[k].took => notifs[k].snap = notifs[k].expected

C5_Witness ==
  \E k \in Ids :
    /\ ~notifs[k].took
    /\ Len(notifs[k].snap) >= 2
    /\ notifs[k].snap[1] # notifs[k].snap[2]
    /\ Delivered(k) = notifs[k].snap

\* C6: after a handler has raised, delivery goes on: no notify call has
\* lost observers it had not queued yet, and whenever top-level code runs
\* with the queue marked in progress a timer is pending to continue it.
C6_RaiseDoesNotStall ==
  raised # "no" =>
    /\ \A k \in Ids : ~notifs[k].aborted
    /\ (Idle /\ inprogress) => timers > 0

\* C7: no error ever reaches the caller of notify.
C7_NotifyNeverRaises == raised # "notify"

\* C8: a notify issued after remove( name, context ) causes no invocation
\* of an observer with that context (until one is registered again), and
\* the observers of other contexts are invoked or queued exactly once each,
\* as if the removed ones had never been registered.
C8_RemovedContextNotInvoked ==
  \A k \in Ids :
    /\ \A p \in 1..Len(log) :
         log[p].id = k => log[p].observer.context \notin notifs[k].absent
    /\ \A p \in 1..Len(Pending) :
         Pending[p].id = k => Pending[p].observer.context \notin notifs[k].absent
    /\ ~notifs[k].aborted =>
         SeqToBag(Delivered(k) \o Waiting(k)) = SeqToBag(notifs[k].expected)

\* a notify issued after a remove that took observers out, delivered in
\* full to the observers of the other context
C8_Witness ==
  \E k \in Ids :
    /\ notifs[k].took
    /\ notifs[k].absent # {}
    /\ Len(notifs[k].snap) >= 1
    /\ Drained(k)
    /\ Len(Delivered(k)) = Len(notifs[k].snap)

\* C9: a name is a key of the observer map exactly when its observer list
\* is not empty.
C9_KeyIffNonEmpty ==
  \A n \in Names : (n \in DOMAIN observerMap) <=> (slice(observerMap, n) # <<>>)

\* one observer registered and then removed by its context: the name is
\* absent from the map
C9_Witness ==
  /\ nreg = 1 /\ nrem = 1
  /\ took["n1"]
  /\ "n1" \notin DOMAIN observerMap

C12_HandlersNeverNest ==
  /\ \A f \in 1..Len(stack) : stack[f].caller = <<>>
  /\ Len(stack) <= 1
  /\ \A k \in Ids : notifs[k].open # {} => ~notifs[k].begun

\* a notify call made from inside a handler, while the outer notify call
\* was still queuing its observers, delivered in full later
C12_Witness ==
  \E k \in Ids :
    /\ notifs[k].open # {}
    /\ Len(notifs[k].snap) >= 1
    /\ Drained(k)
    /\ Delivered(k) = notifs[k].snap

(* ------------------- claims about the module system -------------------- *)
\* the prototype along the chain of d that overrides or introduces member
\* m (its own m is not the m of its base), 0 if none
RECURSIVE Holder(_, _, _)
Holder(ds, d, m) ==
  IF d = 0
    THEN 0
    ELSE IF ds[d].own[m] \notin {Null, method(ds, ds[d].base, m)}
      THEN d
      ELSE Holder(ds, ds[d].base, m)

\* The implementations of m a call on an instance of d goes through when
\* every _super call reaches the implementation of the base of the
\* prototype that holds the calling function.
RECURSIVE Chain(_, _, _)
Chain(ds, d, m) ==
  LET x == Holder(ds, d, m)
  IN  IF x = 0
        THEN <<>>
        ELSE IF Kind[ds[x].own[m]] = "leaf"
          THEN << ds[x].own[m] >>
          ELSE << ds[x].own[m] >> \o Chain(ds, ds[x].base, m)

\* the functions entered by the last call, in order
Entered == [ j \in 1..Len(ret.trace) |-> ret.trace[j].fn ]

\* the chain reaches an implementation that returns
Grounded(c) == c # <<>> /\ Kind[Last(c)] = "leaf"

\* C13: in a derivation chain, a call of f on an instance goes through the
\* overrides of f from the instance's prototype upward, each _super call
\* entering the f of the next base, down to the base implementation that
\* returns: every function is entered with the instance as receiver and
\* the given argument, and the call returns the result of the base f.  A
\* call of an overridden g that uses _super and then calls this.f() goes
\* through the chain of g and then through the chain of f of the
\* instance's own prototype.
C13_SuperReachesBase ==
  ret.inst # 0 =>
    LET d  == insts[ret.inst].def
        cf == Chain(defs, d, "f")
        cg == Chain(defs, d, "g")
    IN  /\ (ret.m = "f" /\ Grounded(cf)) =>
              /\ Entered = cf
              /\ ret.result = Returned(Last(cf), ret.inst, ret.arg)
        /\ ( /\ ret.m = "g"
             /\ cg # <<>> /\ Kind[cg[1]] = "gsuper"
             /\ Len(cg) >= 2 /\ Kind[Last(cg)] = "leaf"
             /\ Grounded(cf) ) =>
              /\ Entered = cg \o cf
              /\ ret.result = Returned(Last(cf), ret.inst, ret.arg)
        /\ \A j \in 1..Len(ret.trace) :
              ret.trace[j].this = ret.inst /\ ret.trace[j].arg = ret.arg

Opaque(c) ==
  [ p \in Paths |-> IF Len(p) = 2 /\ c[<< p[1] >>].t = "x" THEN Undef ELSE c[p] ]

\* the holders of options, other than the writer, that existed at the last
\* write by user code
Bystanders == DOMAIN muts.before \ {muts.owner}

\* C15 (as claimed): every instance constructed with arguments holds the
\* defaults of its definition deep-merged with its own overrides until it
\* is written to, and a write through one instance's options changes
\* nothing that can be read through the options of another instance or
\* of a definition.
C15_InstancesIndependent ==
  /\ \A i \in 1..Len(insts) :
       <<"inst", i>> \notin muts.touched =>
         Tree(heap, insts[i].options) = want.insts[i]
  /\ (muts.n > 0 /\ muts.owner[1] = "inst") =>
       \A o \in Bystanders : Content(heap, OptionsOf(o)) = muts.before[o]

\* C15 (amended): as claimed for the members that are primitives or plain
\* objects: the plain objects of an instance's options are reachable from
\* no other instance and from no definition, and a write through one
\* instance changes no such member of anybody else; an object that is not
\* plain is held by reference and stays shared.
C15_PlainOptionsIndependent ==
  /\ \A i \in 1..Len(insts) :
       <<"inst", i>> \notin muts.touched =>
         Tree(heap, insts[i].options) = want.insts[i]
  /\ \A i \in 1..Len(insts) : \A o \in Owners \ {<<"inst", i>>} :
       PlainReach(heap, insts[i].options) \cap PlainReach(heap, OptionsOf(o)) = {}
  /\ (muts.n > 0 /\ muts.owner[1] = "inst") =>
       \A o \in Bystanders :
         Tree(heap, OptionsOf(o)) = Opaque(muts.before[o])

\* two instances of the deepest definition of a chain of two derived
\* definitions, constructed with different overrides; a nested member of
\* the first was written and the second still holds what it was given
C15_Witness ==
  /\ Len(defs) >= 3
  /\ Len(insts) >= 2
  /\ insts[1].def = Len(defs) /\ insts[2].def = Len(defs)
  /\ want.insts[1] # want.insts[2]
  /\ muts.n > 0
  /\ muts.owner = <<"inst", 1>>
  /\ muts.path = <<"sub", "count">>
  /\ Tree(heap, insts[1].options) # want.insts[1]
  /\ Tree(heap, insts[2].options) = want.insts[2]

\* C16 (as claimed): the options object of a derived prototype shares no
\* object, at any depth, with the options object of its base.
C16_NoSharedObject ==
  \A d \in 2..Len(defs) :
    Reach(heap, defs[d].options) \cap Reach(heap, defs[defs[d].base].options) = {}

\* C16 (amended): the options object of a derived prototype is a copy of
\* the base options merged with the declared options; it shares no plain
\* object, at any depth, with the options of any other prototype, and a
\* write through one prototype's options changes no primitive or plain
\* member of another's; objects that are not plain are shared.
C16_NoSharedPlainObject ==
  /\ \A d \in 2..Len(defs) : \A e \in 1..Len(defs) :
       d # e =>
         PlainReach(heap, defs[d].options) \cap PlainReach(heap, defs[e].options) = {}
  /\ \A d \in 2..Len(defs) :
       <<"def", d>> \notin muts.touched =>
         Tree(heap, defs[d].options) = want.defs[d]
  /\ (muts.n > 0 /\ muts.owner[1] = "def") =>
       \A o \in Bystanders :
         Tree(heap, OptionsOf(o)) = Opaque(muts.before[o])

\* a definition derived from a base with a nested options object: the
\* nested member of the derived defaults was written, the base keeps its
\* value
C16_Witness ==
  /\ Len(defs) >= 3
  /\ muts.n > 0
  /\ muts.owner = <<"def", 3>>
  /\ muts.path = <<"sub", "count">>
  /\ Tree(heap, defs[2].options)[<<"sub">>] = Obj
  /\ Tree(heap, defs[3].options)[<<"sub", "count">>] = Prim(7)
  /\ Tree(heap, defs[2].options)[<<"sub", "count">>] = Prim(0)

(* ----------------------- claims about the caches ----------------------- *)
\* the cache a call was made on
MapOf(cache) ==
  CASE cache = "model" -> proxyMap
    [] cache = "view"  -> mediatorMap
    [] OTHER           -> commandMap

\* C17: in each of the three caches a register under a name that is in use
\* raises the duplicate-registration error, and the step that raises it
\* leaves the registrations, the instances, the lifecycle hooks called and
\* the observers of the notifier as they were; when the caller gave the
\* name, the name counters too.
C17_DuplicateChangesNothing ==
  [][ /\ (cret'.op = "register" /\ has(MapOf(cret'.cache), cret'.name)) =>
           cret'.err = "duplicate"
      /\ (cret'.op = "register" /\ cret'.err = "duplicate") =>
           /\ UNCHANGED << proxyMap, mediatorMap, commandMap, closures >>
           /\ UNCHANGED << heap, insts, hooks, execs >>
           /\ UNCHANGED << observerMap, queue, log >>
           /\ (~cret'.generated) => UNCHANGED << proxyGuid, mediatorGuid >>
    ]_vars

\* the duplicate error has been raised by all three caches, last by the
\* view for a name the caller gave, with a mediator, a proxy and a command
\* registered
C17_Witness ==
  /\ dups = {"model", "view", "controller"}
  /\ cret.op = "register" /\ cret.cache = "view"
  /\ cret.err = "duplicate" /\ ~cret.generated
  /\ has(mediatorMap, cret.name)
  /\ DOMAIN proxyMap # {} /\ DOMAIN commandMap # {}
  /\ Len(hooks) = 2

\* C18: controller.get( name ) hands back the constructor passed to
\* controller.register for that name while a command is registered, and
\* null when none is.
C18_GetReturnsConstructor ==
  cret.op = "get" =>
    cret.value =
      IF has(commandMap, cret.name)
        THEN Constructor(closures[ClosureOf(commandMap[cret.name].fn)].command)
        ELSE NullValue

\* C19: the options of every command instance made by the controller are
\* the defaults of its class deep-merged with the hash given to
\* controller.register.
C19_CommandConfigured ==
  \A e \in 1..Len(execs) :
    Tree(heap, insts[execs[e].inst].options) = want.insts[execs[e].inst]

\* the factories run for notification k
MadeFor(k) == { e \in 1..Len(execs) : execs[e].id = k }

\* the observers of the controller that notify call k found registered
DueFor(k) ==
  { x \in 1..Len(notifs[k].snap) : notifs[k].snap[x].context = Controller }

\* nothing is left that runs without a new call by user code
Settled == Idle /\ timers = 0

\* C20: every notify issued while a command is registered makes one new
\* command instance and calls its execute once: never more than one, no
\* instance twice, and exactly one when nothing is left to run.
C20_OneCommandPerNotify ==
  /\ \A k \in Ids :
       /\ Cardinality(MadeFor(k)) <= Cardinality(DueFor(k))
       /\ Settled => Cardinality(MadeFor(k)) = Cardinality(DueFor(k))
  /\ \A e, f \in 1..Len(execs) : e # f => execs[e].inst # execs[f].inst

\* C21: a register without a name never raises the duplicate-name error:
\* the generated name is one that is not in use.
C21_UnnamedNeverDuplicate ==
  (cret.op = "register" /\ cret.generated) => cret.err # "duplicate"

\* the instances a cache has registered and not removed since, as the
\* _register and _remove hooks recorded it
Live(i) ==
  \E h \in 1..Len(hooks) :
    /\ hooks[h].inst = i /\ hooks[h].hook = "_register"
    /\ \A g \in (h + 1)..Len(hooks) :
         ~(hooks[g].inst = i /\ hooks[g].hook = "_remove")

\* the proxies registered under a name
ProxiesUnder(name) ==
  { i \in 1..Len(insts) :
      insts[i].def = ProxyClass /\ Live(i) /\ insts[i].name.s = name }

\* what has and get of the model are to hand back for a name
Expected(op, name) ==
  IF op = "has"
    THEN { Truth(ProxiesUnder(name) # {}) }
    ELSE IF ProxiesUnder(name) = {}
           THEN { NullValue }
           ELSE { Instance(i) : i \in ProxiesUnder(name) }

\* C22: has( name ) of the model is true and get( name ) hands back the
\* proxy exactly while a proxy registered under that name has not been
\* removed; for every other name has is false and get hands back null.
C22_CacheFollowsRegistration ==
  (cret.cache = "model" /\ cret.op \in {"has", "get"}) =>
    cret.value \in Expected(cret.op, cret.name)

\* the observers of context c under a name, and those of the other contexts
Of(map, name, c)     == SelectSeq(slice(map, name), LAMBDA o : o.context = c)
Others(map, name, c) == SelectSeq(slice(map, name), LAMBDA o : o.context # c)

\* the observers view.register is to add under a name for a new mediator i
\* of class d: one for each interest in that name whose member is a function
Wanted(d, i, name) ==
  LET hits == SelectSeq(InterestsOf(d),
                LAMBDA e : e.name = name /\ method(defs, d, e.fn) \in Fns)
  IN  [ x \in 1..Len(hits) |-> Observer(method(defs, d, hits[x].fn), Ctx(i)) ]

\* a successful view.register: the new mediator's observers are the wanted
\* ones and the lists are otherwise as they were
Registers ==
  (cret'.op = "register" /\ cret'.cache = "view" /\ cret'.err = "") =>
    LET i == Len(insts')
    IN  \A n \in Names :
          /\ Of(observerMap', n, Ctx(i)) = Wanted(insts'[i].def, i, n)
          /\ Others(observerMap', n, Ctx(i)) = slice(observerMap, n)

\* a view.remove of a registered mediator: none of its observers is left
\* and those of every other context are all still there
Removes ==
  (cret'.op = "remove" /\ cret'.cache = "view" /\ hooks' # hooks) =>
    LET i == hooks'[Len(hooks')].inst
    IN  \A n \in Names :
          /\ Of(observerMap', n, Ctx(i)) = << >>
          /\ SeqToBag(Others(observerMap', n, Ctx(i))) =
               SeqToBag(Others(observerMap, n, Ctx(i)))

\* the mediators that had been removed when notification k was issued
Gone(k) ==
  { i \in 1..Len(insts) : Ctx(i) \in notifs[k].absent }

\* no handler of a mediator removed before notification k is invoked for
\* it, and unless a raised error abandoned the call the handlers of the
\* observers then registered are each invoked, or queued, once
Spared ==
  \A k \in Ids :
    /\ \A p \in 1..Len(log) :
         log[p].id = k => \A i \in Gone(k) : log[p].observer.context # Ctx(i)
    /\ ~notifs[k].aborted =>
         SeqToBag(Delivered(k) \o Waiting(k)) = SeqToBag(notifs[k].expected)

\* C23: view.register adds exactly one observer, with the new mediator as
\* context, for each notification interest whose member is a function;
\* view.remove takes out every observer of that mediator and no observer of
\* another context; so a notification issued after view.remove invokes no
\* handler of the removed mediator while the handlers of the other
\* mediators are invoked.
C23_MediatorObservers == [][Registers /\ Removes]_vars /\ []Spared

\* two mediators registered, the first removed, and a notification issued
\* after that delivered to the second alone
C23_Witness ==
  \E k \in Ids :
    /\ Gone(k) = {1}
    /\ Len(insts) = 2 /\ insts[1].def = MediatorClass
    /\ Drained(k)
    /\ Delivered(k) = << Observer("fA", Ctx(2)) >>

\* the cache that holds the instances of a class
CacheOf(d) ==
  IF d = ProxyClass THEN "model"
  ELSE IF d \in MediatorClasses THEN "view"
  ELSE "controller"

\* no instance is registered in the cache under the name
Unregistered(cache, name) ==
  \A i \in 1..Len(insts) :
    ~(Live(i) /\ CacheOf(insts[i].def) = cache /\ insts[i].name.s = name)

\* C24: a remove of the model or the view for a name under which nothing is
\* registered is a no-op: it returns without raising, calls no hook and
\* leaves the caches and the observer map as they were.
C24_RemoveAbsentIsNoOp ==
  [][ (cret'.op = "remove" /\ cret'.cache \in {"model", "view"}
         /\ Unregistered(cret'.cache, cret'.name)) =>
        /\ cret'.err = ""
        /\ UNCHANGED << proxyMap, mediatorMap, commandMap, observerMap,
                        hooks >> ]_vars

\* how often a sequence holds an observer
Count(seq, o) == Len(SelectSeq(seq, LAMBDA x : x = o))

\* C25: register does not de-duplicate: an observer registered k times for
\* a name is, for every later notification of that name, invoked or queued
\* k times, and invoked k times once the notification has drained.
C25_EveryRegistrationInvoked ==
  \A k \in Ids : \A o \in Repeated :
    /\ Count(Delivered(k) \o Waiting(k), o) = Count(notifs[k].expected, o)
    /\ Drained(k) => Count(Delivered(k), o) = Count(notifs[k].expected, o)

\* an observer registered three times and invoked three times for one
\* notification
C25_Witness ==
  \E k \in Ids : \E o \in Repeated :
    /\ Count(notifs[k].expected, o) = 3
    /\ Drained(k)
    /\ Count(Delivered(k), o) = 3

\* the step is a call of notify for the name
Notified(name) ==
  \/ Len(notifs') = Len(notifs) + 1 /\ notifs'[Len(notifs')].name = name
  \/ cret'.op = "notify" /\ cret'.name = name

\* no register for the name is in force
Unobserved(name) == name \notin DOMAIN regOrder \/ regOrder[name] = << >>

\* C28: notify for a name without registered observers is a no-op: it does
\* not raise, invokes and enqueues nothing, schedules no yield and leaves
\* the observer map, the queue and the synchronous counter as they were.
C28_NotifyUnobservedIsNoOp ==
  [][ \A n \in Names \cup Inherited :
        (Notified(n) /\ Unobserved(n)) =>
          /\ cret'.err = ""
          /\ UNCHANGED << observerMap, queue, inprogress, notificationSync,
                          timers, cur, stack, log, yields >> ]_vars

\* the mediators registered under a name
MediatorsUnder(name) ==
  { i \in 1..Len(insts) :
      insts[i].def \in MediatorClasses /\ Live(i) /\ insts[i].name.s = name }

\* C29: view.get( name ) hands back the mediator registered under the name,
\* and null when none is, as model.get does for proxies.
C29_ViewGetReturnsMediator ==
  (cret.cache = "view" /\ cret.op = "get") =>
    /\ cret.err = ""
    /\ cret.value \in IF MediatorsUnder(cret.name) = {}
                        THEN { NullValue }
                        ELSE { Instance(i) : i \in MediatorsUnder(cret.name) }

\* the contexts the step has removed that were not removed before
RemovedNow(name) == absent'[name] \ absent[name]

\* C30: remove( name, context ) keeps every observer of the name whose
\* context differs exactly once and no observer whose context is equal,
\* wherever in the list the equal ones stand; the name stays a key of the
\* observer map exactly when an observer is kept.
C30_RemoveFiltersList ==
  [][ nrem' = nrem + 1 =>
        \A n \in Names :
          /\ \A c \in RemovedNow(n) :
               /\ SeqToBag(slice(observerMap', n)) =
                    SeqToBag(Others(observerMap, n, c))
               /\ (n \in DOMAIN observerMap') <=>
                    (Others(observerMap, n, c) # << >>)
          /\ RemovedNow(n) = {} => observerMap' = observerMap ]_vars

\* a list of three observers of which the two of the removed context were
\* taken out and the third is left
C30_Witness ==
  /\ nreg = 3 /\ nrem = 1
  /\ absent["n1"] = { "c2" } /\ took["n1"]
  /\ slice(observerMap, "n1") = << [fn |-> "f1", context |-> "c1"] >>

\* $.mvc.module has run in the step before
Ran == call.ran /\ call.made.constructor # 0

\* the name has the form 'ns.name': one dot, with characters on both sides
Qualified(str) ==
  LET i == indexOf(str, 1)
  IN  i > 1 /\ i < Len(str) /\ indexOf(str, i + 1) = 0

\* the parts of a qualified name before and after its dot
Before(str) == SubSeq(str, 1, indexOf(str, 1) - 1)
After(str)  == SubSeq(str, indexOf(str, 1) + 1, Len(str))

\* what $.mvc held before the call is still there, but for the member ns.m
KeptBut(ns, m) ==
  \A n \in DOMAIN call.before :
    /\ n \in DOMAIN mvc
    /\ \A x \in DOMAIN call.before[n] :
         (n # ns \/ x # m) =>
           x \in DOMAIN mvc[n] /\ mvc[n][x] = call.before[n][x]

\* C26: for a name 'ns.name', ns equal to name included, the new
\* constructor is stored at $.mvc[ ns ][ name ], in a container made for it
\* or found there, and the prototype is named name in namespace ns; for a
\* name without a dot $.mvc is left as it was and the namespace is "".
C26_QualifiedNameStored ==
  Ran =>
    /\ Qualified(call.name) =>
         LET ns == Before(call.name)
             m  == After(call.name)
         IN  /\ call.made.name = m
             /\ call.made.namespace = ns
             /\ ns \in DOMAIN mvc
             /\ m \in DOMAIN mvc[ns]
             /\ mvc[ns][m] = call.made.constructor
             /\ KeptBut(ns, m)
    /\ indexOf(call.name, 1) = 0 =>
         /\ mvc = call.before
         /\ call.made.name = call.name
         /\ call.made.namespace = << >>

\* the tables a member of the new prototype can come from, the one that
\* takes precedence first: the definition table, the structural members,
\* the base prototype
Tables == << call.proto, structural(call.baseIsModule), call.base >>

\* the tables that define the member
Defining(k) == { t \in 1..3 : Tables[t][k].kind # "undefined" }

\* the least number of a set of numbers
Least(ts) == CHOOSE t \in ts : \A u \in ts : t <= u

\* the tables down to the first that defines the member as something of
\* another sort
Run(k, kind) ==
  { t \in Defining(k) :
      \A u \in Defining(k) : u <= t => Tables[u][k].kind = kind }

\* the members of the plain objects of a run, each from the first table
\* that defines it
Merged(k) ==
  [ x \in SubKeys |->
      LET ts == { t \in Run(k, "plain") : Tables[t][k].m[x] # "" }
      IN  IF ts = {} THEN "" ELSE Tables[Least(ts)][k].m[x] ]

\* the elements of the arrays of a run, each from the first table whose
\* array is long enough
Spliced(k) ==
  LET long(i) == { t \in Run(k, "array") : i <= Len(Tables[t][k].s) }
      n       == CHOOSE i \in 0..2 :
                   /\ \A j \in 1..i : long(j) # {}
                   /\ i < 2 => long(i + 1) = {}
  IN  [ i \in 1..n |-> Tables[Least(long(i))][k].s[i] ]

\* the member by precedence, the values of the sorts in merging merged
ByPrecedence(k, merging) ==
  IF Defining(k) = {}
    THEN Missing
    ELSE LET top == Tables[Least(Defining(k))][k]
         IN  IF top.kind \notin merging THEN top
             ELSE IF top.kind = "plain" THEN Plain(Merged(k))
             ELSE Array(Spliced(k))

HandlersReturned ==
  Len(log) - (IF InHandler THEN 1 ELSE 0) - (IF raised # "no" THEN 1 ELSE 0)

AtRest ==
  /\ Idle
  /\ queue = <<>>
  /\ ~inprogress
  /\ timers = 0

\* every observer notification k was to reach has been invoked, in order
Done(k) == k \in Ids /\ Drained(k) /\ Delivered(k) = notifs[k].snap

\* C32: when handlers return and yield timers fire, every delivery task a
\* notify call has queued is executed in the end and the queue comes to
\* rest (empty, not in progress, no timer pending): a behaviour makes
\* finitely many calls, and from some point on every notification issued
\* has reached all its observers and the queue is at rest.  A yield
\* scheduled behind the last queued task therefore leaves the queue
\* unblocked once its timer has fired, and the tasks of a notify issued
\* during or after the yield are delivered too.
C32_EveryTaskExecuted == <>[](AtRest /\ \A k \in Ids : Done(k))

\* a notify that only appended its tasks, issued after a yield had been
\* scheduled, has been delivered in full and the queue is at rest
C32_Witness ==
  \E k \in Ids :
    /\ notifs[k].yields >= 1
    /\ ~notifs[k].begun
    /\ notifs[k].snap # <<>>
    /\ Done(k)
    /\ AtRest

\* C33: a notify call made while no handler runs, no notify call is
\* suspended and no yield timer is pending starts delivery itself: when
\* the name has observers, the handler of the first of them is invoked
\* inside the call; a notify call made while a delivery is in progress or
\* a yield is pending only appends its tasks and invokes no handler.
C33_IdleNotifyStartsDelivery ==
  [][ Len(notifs') > Len(notifs) =>
        LET k == Len(notifs')
        IN  IF Idle /\ timers = 0
              THEN notifs'[k].snap # <<>> =>
                     /\ notifs'[k].begun
                     /\ Len(log') = Len(log) + 1
                     /\ log'[Len(log')].id = k
                     /\ log'[Len(log')].i = 1
              ELSE /\ ~notifs'[k].begun
                   /\ log' = log
                   /\ cur' = cur
                   /\ Len(queue') = Len(queue) + Len(notifs'[k].snap) ]_vars

(* ------------------- claims about the lifecycle hooks ------------------ *)
\* how often a hook of instance i has been called
Hooked(i, hook) ==
  Cardinality({ h \in 1..Len(hooks) :
                  hooks[h].inst = i /\ hooks[h].hook = hook })

\* the instances the model and the view hold
Cached ==
  { proxyMap[n] : n \in DOMAIN proxyMap } \cup
  { mediatorMap[n] : n \in DOMAIN mediatorMap }

\* the notification interests of class d whose member is a function
Interested(d) ==
  Len(SelectSeq(InterestsOf(d), LAMBDA e : method(defs, d, e.fn) \in Fns))

\* C34: register of the model and of the view calls _register of the new
\* instance once, with the instance in the cache and, for a mediator, its
\* observers registered; remove calls _remove once, with the instance out
\* of the cache and none of its observers left; so an instance is in a
\* cache exactly when it has received _register and not _remove, and no
\* instance receives _remove before _register or either of them twice.
C34_HooksFollowCache ==
  /\ \A h \in 1..Len(hooks) :
       IF hooks[h].hook = "_register"
         THEN /\ hooks[h].has
              /\ hooks[h].observers = Interested(insts[hooks[h].inst].def)
         ELSE /\ ~hooks[h].has
              /\ hooks[h].observers = 0
              /\ \E g \in 1..(h - 1) :
                   hooks[g].inst = hooks[h].inst /\ hooks[g].hook = "_register"
  /\ \A i \in 1..Len(insts) :
       insts[i].def # CommandClass =>
         /\ Hooked(i, "_register") = 1
         /\ Hooked(i, "_remove") = IF i \in Cached THEN 0 ELSE 1

\* a mediator with an observer registered and removed again, and a proxy
\* that is still in the model
C34_Witness ==
  /\ \E g, h \in 1..Len(hooks) :
       /\ g < h
       /\ hooks[g].inst = hooks[h].inst
       /\ insts[hooks[g].inst].def = MediatorClass
       /\ hooks[g].hook = "_register" /\ hooks[g].observers = 1
       /\ hooks[h].hook = "_remove" /\ hooks[h].observers = 0
  /\ \E n \in DOMAIN proxyMap : Hooked(proxyMap[n], "_register") = 1

(* -------------------- claims about back-references --------------------- *)
\* the step is a call of $.mvc.module
Derives == Len(defs') = Len(defs) + 1

\* member m of the new prototype is a function and differs from the
\* function the base prototype has under m
Overriding(m) ==
  LET d       == Len(defs')
      fn      == method(defs', d, m)
      fnSuper == method(defs', defs'[d].base, m)
  IN  fn # Null /\ fnSuper # Null /\ fn # fnSuper

\* C35: after $.mvc.module, a member m of the new prototype carries a
\* back-reference to the base prototype's m exactly when both are
\* functions and not the same function; a method the new definition
\* inherits unchanged gets no new back-reference: it keeps the one it had
\* before the call.
C35_BackReferenceIffOverride ==
  [][ Derives =>
        LET d == Len(defs')
        IN  \A m \in MethodSet :
              LET fn      == method(defs', d, m)
                  fnSuper == method(defs', defs'[d].base, m)
              IN  /\ Overriding(m) <=>
                       (fn # Null /\ fnSuper # Null /\ fsuper'[fn] = fnSuper)
                  /\ (fn # Null /\ fn = fnSuper) => fsuper'[fn] = fsuper[fn]
    ]_vars

\* C37: a later derivation never changes the back-reference of a method of
\* an existing definition: whatever $.mvc.module calls have been made, a
\* function that definition D has under m, overriding the function its
\* base has under m, carries the back-reference to that function of D's
\* own base, which is what _super called from it invokes.
C37_BackReferenceStable ==
  \A x \in 1..Len(defs), m \in MethodSet :
    LET fn      == defs[x].own[m]
        fnSuper == method(defs, defs[x].base, m)
    IN  (fn # Null /\ fnSuper # Null /\ fn # fnSuper) => fsuper[fn] = fnSuper

(* --------------- claims about the base of a derivation ----------------- *)
\* C36: deriving a definition leaves the base definition as it was: every
\* member of the base prototype, a nested plain object other than options
\* such as notificationInterests included, holds after the call of
\* $.mvc.module what it held before, so that definitions derived from one
\* base do not see each other's entries.
C36_DerivationLeavesBase == Ran => call.after = call.base

\* C38: remove of the model or the view called with an instance takes an
\* entry out only when that very instance is the registered one: given an
\* instance that is in no cache, whatever its getName() returns, the call
\* returns without raising and leaves the caches and the observer lists as
\* they were and calls no hook.
C38_RemoveOnlyRegisteredObject ==
  [][ ( /\ cret'.op = "remove"
        /\ cret'.cache \in { "model", "view" }
        /\ cret'.held # 0
        /\ cret'.held \notin Cached ) =>
        /\ cret'.err = ""
        /\ UNCHANGED << proxyMap, mediatorMap, commandMap, observerMap,
                        hooks >> ]_vars

(* ------------------- claims about the controller ----------------------- *)
\* C39: whatever calls of controller.register and controller.remove have
\* been made, failed ones included, for every notification name the
\* observer list of the notifier holds exactly one observer with the
\* controller as context when controller.has( name ) is true, and none
\* when it is false; so no name ever has more than one command.
C39_ControllerMatchesNotifier ==
  \A n \in Names \cup Inherited :
    Len(Of(observerMap, n, Controller)) = IF has(commandMap, n) THEN 1 ELSE 0

====
